---- MODULE Spec2Model ----
(***************************************************************************)
(* Model of the QC rule engine of qc-webapp: the checks of qc_checks.py    *)
(* applied to a table (a pandas DataFrame), and the driver of app.py.      *)
(*                                                                         *)
(* A table is a record [cols, data, index]: the header in column order,    *)
(* the rows in table order (each a function from column name to cell) and  *)
(* the row labels.  A cell is a record [t, s, n]: t is the kind of value   *)
(* ("str", "num", "bool", "nan", "ts"), s the text of a string and n the   *)
(* number of a numeric value, the truth value of a boolean (1/0) or the    *)
(* minutes of a time ("ts": minutes since the first day of the model's     *)
(* calendar; "date": a day number).  Strings whose s is "HH:MM:SS",        *)
(* "datetime", "date" or "number" carry their payload in n: they are the   *)
(* text of the time of day n, of the timestamp n, of the day n and of the  *)
(* number n.                                                               *)
(*                                                                         *)
(* The state: df is the table the checks annotate, loaded the table as it  *)
(* was loaded, env the inputs of the run (monitoring period, reference     *)
(* workbooks, configuration), ran the checks called so far, exc the        *)
(* exception that escaped a call ("" when none), caught the exception the  *)
(* last call handled itself, pc the position of run_qc.                    *)
(***************************************************************************)
EXTENDS Integers, Sequences, FiniteSets, TLC

VARIABLES df, loaded, env, ran, exc, caught, pc

vars == <<df, loaded, env, ran, exc, caught, pc>>

-----------------------------------------------------------------------------
(* Bounds of the model *)

MaxRows == 3

MaxChecks == 2

-----------------------------------------------------------------------------
(* Cells *)

S(x) == [t |-> "str", s |-> x, n |-> 0]

N(k) == [t |-> "num", s |-> "", n |-> k]

B(b) == [t |-> "bool", s |-> "", n |-> IF b THEN 1 ELSE 0]

NaN == [t |-> "nan", s |-> "", n |-> 0]

NaTCell == [t |-> "nat", s |-> "", n |-> 0]

TS(m) == [t |-> "ts", s |-> "", n |-> m]

DateCell(d) == [t |-> "date", s |-> "", n |-> d]

HMS(m) == [t |-> "str", s |-> "HH:MM:SS", n |-> m]

None == "<None>"

NaT == -1

Range(f) == {f[i] : i \in DOMAIN f}

NA == [t |-> "na", s |-> "", n |-> 0]

\* pd.isna(value)
IsNa(c) == c.t \in {"nan", "nat", "na"} \/ c = S(None)

\* timestamp.date(), as a day number
Day(m) == m \div 1440

\* str(value): the text of a cell, as a string cell
Str(c) ==
  CASE c.t = "str"  -> c
    [] c.t = "num"  -> [t |-> "str", s |-> "number", n |-> c.n]
    [] c.t = "bool" -> S(IF c.n = 1 THEN "True" ELSE "False")
    [] c.t = "nan"  -> S("nan")
    [] c.t = "nat"  -> S("NaT")
    [] c.t = "na"   -> S("<NA>")
    [] c.t = "ts"   -> [t |-> "str", s |-> "datetime", n |-> c.n]
    [] c.t = "date" -> [t |-> "str", s |-> "date", n |-> c.n]

\* the characters of str(value), for the texts the code builds from cells
Text(c) ==
  LET x == Str(c)
  IN IF x.s \in {"HH:MM:SS", "datetime", "date"} THEN x.s \o "#" \o ToString(x.n)
     ELSE IF x.s = "number" THEN ToString(x.n)
     ELSE x.s

\* bool(value) is False
Falsy(c) ==
  \/ c.t = "str" /\ c.s = ""
  \/ c.t \in {"num", "bool"} /\ c.n = 0

\* pd.to_datetime(text, format="%H:%M:%S", errors="coerce"): minutes, or NaT
ParseHMS(c) == IF c.t = "str" /\ c.s = "HH:MM:SS" THEN c.n ELSE NaT

-----------------------------------------------------------------------------
(* Column names.  Strings are atomic in the model, so the substring tests  *)
(* the code makes on lower-cased header names are tabulated: Subs(c) is    *)
(* the set of the keywords searched for by some check that c.lower()       *)
(* contains.                                                               *)

SubsTable ==
  ("TV-Channel" :> {"channel"})
  @@ ("Audience Source" :> {"source", "aud", "audience source"})
  @@ ("Channel ID" :> {"channel", "channel id"})
  @@ ("Date (UTC/GMT)" :> {"date", "date (utc", "utc", "gmt"})
  @@ ("Start (UTC)" :> {"start", "start (utc", "utc"})
  @@ ("End (UTC)" :> {"end", "end (utc", "utc"})
  @@ ("Type of program" :> {"type"})
  @@ ("Home Team" :> {"home"})
  @@ ("Away Team" :> {"away"})
  @@ ("Pay/Free TV" :> {"pay"})
  @@ ("Combined" :> {"combined"})
  @@ ("Source" :> {"source"})
  @@ ("Program Description" :> {"desc"})
  @@ ("Aud. Estimates ['000s]" :> {"aud", "estim", "aud. estimates", "000"})
  @@ ("Aud Metered (000s) 3+" :> {"aud", "meter", "aud metered", "metered", "3+", "000"})
  @@ ("Start" :> {"start"})
  @@ ("End" :> {"end"})
  @@ ("Date_checked" :> {"date"})
  @@ ("_StartDT" :> {"start"})
  @@ ("_EndDT" :> {"end"})
  @@ ("Market_Channel_Consistency_OK" :> {"channel"})
  @@ ("Market_Channel_Program_Remark" :> {"channel"})
  @@ ("Market_Channel_ID_OK" :> {"channel"})
  @@ ("Market_Channel_ID_Remark" :> {"channel"})
  @@ ("Program_Description_OK" :> {"desc"})

\* table[k], or d when the table has no entry for k
Lookup(table, k, d) == IF k \in DOMAIN table THEN table[k] ELSE d

Subs(c) == Lookup(SubsTable, c, {})

\* next((c for c in df.columns if P(c)), None), for P(c) = "every keyword of
\* subs is in c.lower()"
FirstCol(T, subs) ==
  LET hits == {i \in 1..Len(T.cols) : subs \subseteq Subs(T.cols[i])}
  IN IF hits = {} THEN None
     ELSE T.cols[CHOOSE i \in hits : \A j \in hits : i <= j]

\* x or d
OrElse(x, d) == IF x = None THEN d ELSE x

HasCol(T, c) == c \in Range(T.cols)

NRows(T) == Len(T.data)

\* row.get(c): the cell, or None when the row has no such column
Get(row, c) == IF c \in DOMAIN row THEN row[c] ELSE S(None)

\* Sequences and rows are built as explicit values (not as functions
\* evaluated at each use)
Seq_(f) == <<>> \o f

Fn_(f) == f @@ <<>>

\* the header with the names of cs that it lacks appended, in the order of cs
AddCols(cols, cs) ==
  LET F[i \in 0..Len(cs)] ==
        IF i = 0 THEN cols
        ELSE IF cs[i] \in Range(F[i-1]) THEN F[i-1] ELSE Append(F[i-1], cs[i])
  IN F[Len(cs)]

\* df[c] = ... for each column c of cs in turn: rows[p] is a record holding
\* the new cell of row p for each c.  A column that exists is overwritten in
\* place, another is appended
SetCols(T, cs, rows) ==
  [T EXCEPT
     !.cols = AddCols(@, cs),
     !.data = Seq_([p \in 1..Len(T.data) |->
                 Fn_([k \in (DOMAIN T.data[p]) \cup Range(cs) |->
                    IF k \in Range(cs) THEN rows[p][k] ELSE T.data[p][k]])])]

\* df[c] = values (a sequence of cells, one per row)
SetCol(T, c, values) ==
  SetCols(T, <<c>>, Seq_([p \in 1..Len(T.data) |-> [k \in {c} |-> values[p]]]))

\* df[c] = value (one value for every row)
SetAll(T, c, value) ==
  SetCols(T, <<c>>, Seq_([p \in 1..Len(T.data) |-> [k \in {c} |-> value]]))

\* df.drop(columns=cs, errors="ignore")
SelectSeq2(s, keep) ==
  LET F[i \in 0..Len(s)] ==
        IF i = 0 THEN <<>>
        ELSE IF s[i] \in keep THEN Append(F[i-1], s[i]) ELSE F[i-1]
  IN F[Len(s)]

DropCols(T, cs) ==
  [T EXCEPT
     !.cols = SelectSeq2(@, Range(@) \ cs),
     !.data = Seq_([p \in 1..Len(T.data) |->
                 Fn_([k \in (DOMAIN T.data[p]) \ cs |-> T.data[p][k]])])]

-----------------------------------------------------------------------------
(* Texts of cells.  ValSubs(s) tabulates, for the lower-cased texts the    *)
(* model's cells hold, the keywords some check searches for that s         *)
(* contains;                                                               *)
(* Lexi lists the plain texts of the columns the code sorts by in the      *)
(* order Python's string comparison gives them.                            *)

\* s.lower(), for the header names, the candidate names and the texts of
\* the model (a text with no capital letter is its own lower case)
LowerTable ==
  ("TV Channel" :> "tv channel")
  @@ ("TV-Channel" :> "tv-channel")
  @@ ("Channel" :> "channel")
  @@ ("TV Channel " :> "tv channel ")
  @@ ("Channel ID" :> "channel id")
  @@ ("ChannelID" :> "channelid")
  @@ ("Channel Id" :> "channel id")
  @@ ("Type of Program" :> "type of program")
  @@ ("Type of programme" :> "type of programme")
  @@ ("Type of program" :> "type of program")
  @@ ("Matchday" :> "matchday")
  @@ ("Match Day" :> "match day")
  @@ ("Matchday " :> "matchday ")
  @@ ("Home Team" :> "home team")
  @@ ("HomeTeam" :> "hometeam")
  @@ ("Home" :> "home")
  @@ ("Away Team" :> "away team")
  @@ ("AwayTeam" :> "awayteam")
  @@ ("Away" :> "away")
  @@ ("Aud. Estimates ['000s]" :> "aud. estimates ['000s]")
  @@ ("Audience Estimates" :> "audience estimates")
  @@ ("Aud Estimates" :> "aud estimates")
  @@ ("Aud Metered (000s) 3+" :> "aud metered (000s) 3+")
  @@ ("Audience Metered" :> "audience metered")
  @@ ("Aud. Metered (000s) 3+" :> "aud. metered (000s) 3+")
  @@ ("Source" :> "source")
  @@ ("AudienceSource" :> "audiencesource")
  @@ ("Audience Source" :> "audience source")
  @@ ("Audience_Source" :> "audience_source")
  @@ ("OTT" :> "ott")
  @@ ("Client" :> "client")
  @@ ("LSTV" :> "lstv")
  @@ ("Internet" :> "internet")
  @@ ("Pay TV" :> "pay tv")
  @@ ("Free TV" :> "free tv")
  @@ ("Live" :> "live")
  @@ ("Live " :> "live ")
  @@ ("ESPN (HD)" :> "espn (hd)")
  @@ ("Sky-Sports" :> "sky-sports")
  @@ ("Repeat" :> "repeat")
  @@ ("Delayed" :> "delayed")
  @@ ("Highlights" :> "highlights")
  @@ ("Magazine" :> "magazine")
  @@ ("Preview" :> "preview")
  @@ ("Spain" :> "spain")
  @@ ("Market" :> "market")
  @@ ("MARKET" :> "market")
  @@ ("UK" :> "uk")
  @@ ("ESPN" :> "espn")
  @@ ("Sky" :> "sky")
  @@ ("Real Madrid" :> "real madrid")
  @@ ("Barcelona" :> "barcelona")
  @@ ("Sevilla" :> "sevilla")
  @@ ("LaLiga" :> "laliga")
  @@ ("Premier League" :> "premier league")
  @@ ("F24 Spain" :> "f24 spain")
  @@ ("F24 Spain MD1" :> "f24 spain md1")
  @@ ("Cup Final" :> "cup final")
  @@ ("MD1" :> "md1")
  @@ ("MD2" :> "md2")
  @@ ("BSA" :> "bsa")
  @@ ("Nielsen" :> "nielsen")
  @@ ("Match" :> "match")
  @@ ("NaT" :> "nat")
  @@ ("True" :> "true")
  @@ ("False" :> "false")
  @@ ("<None>" :> "none")

Lower(s) == Lookup(LowerTable, s, s)

\* s.strip(): the texts of the model with a space at an end
Strip(s) ==
  CASE s = "Live " -> "Live"
    [] s = "market " -> "market"
    [] OTHER -> s

ValSubsTable ==
  ("ott" :> {"ott"})
  @@ ("client" :> {"client"})
  @@ ("lstv" :> {"lstv"})
  @@ ("internet" :> {"internet"})
  @@ ("live" :> {"live"})
  @@ ("live " :> {"live"})
  @@ ("delayed" :> {"delayed"})
  @@ ("repeat" :> {"repeat"})
  @@ ("highlights" :> {"highlights", "highlight"})
  @@ ("magazine" :> {"magazine"})
  @@ ("bsa" :> {"bsa"})
  @@ ("spain" :> {"spain"})
  @@ ("laliga" :> {"laliga", "liga"})
  @@ ("f24 spain" :> {"f24 spain", "spain"})
  @@ ("f24 spain md1" :> {"f24 spain", "spain"})

ValSubs(s) == Lookup(ValSubsTable, s, {})

\* k in s.lower()
Has(s, k) == k \in ValSubs(Lower(s))

\* "; ".join(parts)
Join(parts) ==
  LET F[i \in 0..Len(parts)] ==
        IF i = 0 THEN ""
        ELSE IF i = 1 THEN parts[1]
        ELSE F[i-1] \o "; " \o parts[i]
  IN F[Len(parts)]

\* the concatenation of a sequence of sequences
Flatten(ss) ==
  LET F[i \in 0..Len(ss)] == IF i = 0 THEN <<>> ELSE F[i-1] \o ss[i]
  IN F[Len(ss)]

Lexi == <<"ESPN", "Sky">>

StrRank(s) ==
  IF s \in Range(Lexi) THEN CHOOSE i \in 1..Len(Lexi) : Lexi[i] = s ELSE 0

\* the rank of a cell among the cells of one kind (sort order of a column)
CellRank(c) ==
  IF c.t = "str" /\ c.s \notin {"HH:MM:SS", "datetime", "number"}
  THEN StrRank(c.s) ELSE c.n

-----------------------------------------------------------------------------
(* What a call of a check gives: the table (the argument itself, mutated,  *)
(* or a copy), the exception that escaped the call and the exception the   *)
(* check handled itself ("" when none).                                    *)

Result(T, escaped, handled) == [df |-> T, exc |-> escaped, caught |-> handled]

Returns(T) == Result(T, "", "")

\* pd.to_datetime(value, errors="coerce") of one value, in minutes, or NaT;
\* a text holding only a time of day is parsed as that time of the current
\* day
ToDatetime(c, today) ==
  CASE c.t = "ts" -> c.n
    [] c.t = "date" -> c.n * 1440
    [] c.t \in {"nan", "nat"} -> NaT
    [] c.t = "str" ->
         CASE c.s = "datetime" -> c.n
           [] c.s = "date" -> c.n * 1440
           [] c.s = "HH:MM:SS" -> today * 1440 + c.n
           [] OTHER -> NaT

TsCell(m) == IF m = NaT THEN NaTCell ELSE TS(m)

-----------------------------------------------------------------------------
(* period_check(df, start_date, end_date) *)

period_check(T, start_date, end_date, today) ==
  LET date_col == FirstCol(T, {"date"})
      checked == Seq_([p \in 1..NRows(T) |-> ToDatetime(T.data[p][date_col], today)])
      within == Seq_([p \in 1..NRows(T) |->
                  /\ checked[p] # NaT
                  /\ Day(start_date) <= Day(checked[p])
                  /\ Day(checked[p]) <= Day(end_date)])
      res(p) ==
        [Date_checked |-> IF checked[p] = NaT THEN NaTCell ELSE DateCell(Day(checked[p])),
         Within_Period_OK |-> B(within[p]),
         Within_Period_Remark |-> S(IF within[p] THEN "" ELSE "Date outside monitoring period")]
  IN IF date_col = None
     THEN Returns(SetAll(SetAll(T, "Within_Period_OK", B(TRUE)), "Within_Period_Remark", S("")))
     ELSE Returns(SetCols(T, <<"Date_checked", "Within_Period_OK", "Within_Period_Remark">>,
                          Seq_([p \in 1..NRows(T) |-> res(p)])))

-----------------------------------------------------------------------------
(* completeness_check(df) *)

required_columns ==
  [tv_channel      |-> <<"TV Channel", "TV-Channel", "Channel", "TV Channel ">>,
   channel_id      |-> <<"Channel ID", "ChannelID", "Channel Id">>,
   type_of_program |-> <<"Type of Program", "Type of programme", "Type of program">>,
   match_day       |-> <<"Matchday", "Match Day", "Matchday ">>,
   home_team       |-> <<"Home Team", "HomeTeam", "Home">>,
   away_team       |-> <<"Away Team", "AwayTeam", "Away">>,
   aud_estimates   |-> <<"Aud. Estimates ['000s]", "Audience Estimates", "Aud Estimates">>,
   aud_metered     |-> <<"Aud Metered (000s) 3+", "Audience Metered", "Aud. Metered (000s) 3+">>,
   source          |-> <<"Source", "AudienceSource", "Audience Source", "Audience_Source">>]

\* the column whose lower-cased name equals the first candidate (in the
\* order of opts) that has one; of two such columns the later one
ColByCandidates(T, opts) ==
  LET hit(o) == {i \in 1..Len(T.cols) : Lower(T.cols[i]) = Lower(opts[o])}
      os == {o \in 1..Len(opts) : hit(o) # {}}
  IN IF os = {} THEN None
     ELSE LET o == CHOOSE x \in os : \A y \in os : x <= y
          IN T.cols[CHOOSE i \in hit(o) : \A j \in hit(o) : j <= i]

CompletenessCols(T) ==
  LET m == [k \in DOMAIN required_columns |-> ColByCandidates(T, required_columns[k])]
  IN IF m.source = None
     THEN [m EXCEPT !.source = FirstCol(T, {"audience source"})]
     ELSE m

\* is_present(val)
is_present(c) ==
  IF c = S(None) \/ IsNa(c) THEN FALSE
  ELSE IF c.t \in {"num", "bool"} THEN TRUE
  ELSE LET x == Strip(Text(c)) IN x # "" /\ Lower(x) \notin {"nan", "none"}

live_types == {"live", "repeat", "delayed"}

relaxed_types == {"highlights", "magazine", "support", "magazine and support"}

\* the list "missing" of one row whose program type is prog_type
CompletenessFields(colmap, row, prog_type) ==
  LET mandatory(logical, display) ==
        IF colmap[logical] = None THEN <<display \o " (column not found)">>
        ELSE IF ~is_present(Get(row, colmap[logical])) THEN <<display>>
        ELSE <<>>
      team(col, display) ==
        IF prog_type \in live_types
        THEN IF col = None THEN <<display \o " (column not found)">>
             ELSE IF ~is_present(Get(row, col)) THEN <<display>> ELSE <<>>
        ELSE IF prog_type \in relaxed_types THEN <<>>
        ELSE IF col # None /\ ~is_present(Get(row, col)) THEN <<display>> ELSE <<>>
  IN Flatten(<<mandatory("tv_channel", "TV Channel"),
               mandatory("channel_id", "Channel ID"),
               mandatory("match_day", "Match Day"),
               mandatory("source", "Source"),
               IF colmap.aud_estimates = None /\ colmap.aud_metered = None
               THEN <<"Audience (Estimates/Metered) (columns not found)">>
               ELSE IF ~(\/ colmap.aud_estimates # None
                            /\ is_present(Get(row, colmap.aud_estimates))
                         \/ colmap.aud_metered # None
                            /\ is_present(Get(row, colmap.aud_metered)))
               THEN <<"Audience (Estimates/Metered)">>
               ELSE <<>>,
               team(colmap.home_team, "Home Team"),
               team(colmap.away_team, "Away Team")>>)

CompletenessMissing(colmap, row) ==
  CompletenessFields(colmap, row,
                     IF colmap.type_of_program = None
                        \/ Falsy(Get(row, colmap.type_of_program))
                     THEN ""
                     ELSE Lower(Strip(Text(Get(row, colmap.type_of_program)))))

\* the two result cells of a row from its list "missing"
CompletenessResult(missing) ==
  [Completeness_OK |-> B(missing = <<>>),
   Completeness_Remark |-> S(IF missing = <<>> THEN "All key fields present"
                             ELSE Join(missing))]

completeness_check(T) ==
  Returns(SetCols(T, <<"Completeness_OK", "Completeness_Remark">>,
                  Seq_([p \in 1..NRows(T) |->
                     CompletenessResult(CompletenessMissing(CompletenessCols(T), T.data[p]))])))

-----------------------------------------------------------------------------
(* program_category_check(filepath, df_bsr).  fixture is the sheet of the  *)
(* BSR workbook whose name contains "fixture": a record [present, cols,    *)
(* data].                                                                  *)

Abs(x) == IF x < 0 THEN 0 - x ELSE x

\* row.get(col, default)
GetOr(row, col, default) == IF col \in DOMAIN row THEN row[col] ELSE default

\* df[c] = pd.to_datetime(df[c], errors="coerce")
ConvertCol(T, c, today) ==
  SetCol(T, c, Seq_([p \in 1..NRows(T) |-> TsCell(ToDatetime(T.data[p][c], today))]))

ConvertCols(T, cs, today) ==
  LET F[i \in 0..Len(cs)] ==
        IF i = 0 THEN T
        ELSE IF cs[i] # None /\ HasCol(F[i-1], cs[i]) THEN ConvertCol(F[i-1], cs[i], today)
        ELSE F[i-1]
  IN F[Len(cs)]

\* the expected category of a row from the two differences in minutes
ExpectedCategory(start_diff, end_diff) ==
  IF start_diff <= 30 /\ end_diff <= 30 THEN "live"
  ELSE IF start_diff <= 70 \/ end_diff <= 70 THEN "repeat"
  ELSE "highlights"

\* one pass of the row loop for a row whose matching fixture rows are at
\* the positions hits: the four values of the row, or the exception the row
\* raises
ProgramCategoryMatch(actual, bsr_start, bsr_end, fc, fix, hits) ==
  LET fix_row == fix[CHOOSE q \in hits : \A x \in hits : q <= x]
      fix_start == Get(fix_row, fc.start)
      fix_end == Get(fix_row, fc.end)
      expected == ExpectedCategory(Abs(bsr_start.n - fix_start.n), Abs(bsr_end.n - fix_end.n))
  IN IF hits = {}
     THEN [exc |-> "", expected |-> "unknown", actual |-> actual, ok |-> FALSE,
           remark |-> "No matching fixture found"]
     ELSE IF \E c \in {fix_start, fix_end, bsr_start, bsr_end} : c = S(None) \/ IsNa(c)
     THEN [exc |-> "", expected |-> "unknown", actual |-> actual, ok |-> FALSE,
           remark |-> "Invalid time values"]
     ELSE IF {bsr_start.t, fix_start.t, bsr_end.t, fix_end.t} # {"ts"}
     THEN [exc |-> "TypeError", expected |-> "", actual |-> "", ok |-> FALSE, remark |-> ""]
     ELSE [exc |-> "", expected |-> expected, actual |-> actual, ok |-> expected = actual,
           remark |-> IF expected = actual THEN "OK"
                      ELSE "Expected '" \o expected \o "', found '" \o actual \o "'"]

ProgramCategoryRow(bc, fc, bsr_row, fix) ==
  IF fc.home = None \/ fc.away = None
  THEN [exc |-> "KeyError", expected |-> "", actual |-> "", ok |-> FALSE, remark |-> ""]
  ELSE ProgramCategoryMatch(
         Lower(Strip(Text(GetOr(bsr_row, bc.progtype, S(""))))),
         Get(bsr_row, bc.start), Get(bsr_row, bc.end), fc, fix,
         {q \in 1..Len(fix) :
            \/ Lower(Text(fix[q][fc.home])) = Lower(Strip(Text(GetOr(bsr_row, bc.home, S("")))))
            \/ Lower(Text(fix[q][fc.away])) = Lower(Strip(Text(GetOr(bsr_row, bc.away, S("")))))})

\* find_col(df, k) for the five keywords
ProgramCategoryCols(X) ==
  [progtype |-> FirstCol(X, {"type"}), start |-> FirstCol(X, {"start"}),
   end |-> FirstCol(X, {"end"}), home |-> FirstCol(X, {"home"}),
   away |-> FirstCol(X, {"away"})]

\* the end of the call: the first exception of the row loop escapes, else
\* the four columns are assigned
ProgramCategoryAssign(T1, rows) ==
  LET bad == {p \in 1..NRows(T1) : rows[p].exc # ""}
  IN IF bad # {}
     THEN Result(T1, rows[CHOOSE p \in bad : \A q \in bad : p <= q].exc, "")
     ELSE Returns(SetCols(T1, <<"Program_Category_Expected", "Program_Category_Actual",
                                "Program_Category_OK", "Program_Category_Remark">>,
                          Seq_([p \in 1..NRows(T1) |->
                             [Program_Category_Expected |-> S(rows[p].expected),
                              Program_Category_Actual |-> S(rows[p].actual),
                              Program_Category_OK |-> B(rows[p].ok),
                              Program_Category_Remark |-> S(rows[p].remark)]])))

ProgramCategoryLoop(T1, fix, bc, fc) ==
  ProgramCategoryAssign(T1, Seq_([p \in 1..NRows(T1) |->
                                   ProgramCategoryRow(bc, fc, T1.data[p], fix)]))

\* the conversions of the start and end columns; a column of the fixture
\* sheet is converted only when the table has no column of that name
ProgramCategoryConvert(T, fixture, today, bc, fc) ==
  ProgramCategoryLoop(
    ConvertCols(T, <<bc.start, bc.end>>, today),
    ConvertCols(fixture,
                <<IF fc.start # None /\ HasCol(T, fc.start) THEN None ELSE fc.start,
                  IF fc.end # None /\ HasCol(T, fc.end) THEN None ELSE fc.end>>,
                today).data,
    bc, fc)

program_category_check(fixture, T, today) ==
  IF ~fixture.present
  THEN Returns(SetCols(T, <<"Program_Category_Expected", "Program_Category_Actual",
                            "Program_Category_OK", "Program_Category_Remark">>,
                       Seq_([p \in 1..NRows(T) |->
                          [Program_Category_Expected |-> S("unknown"),
                           Program_Category_Actual |-> GetOr(T.data[p], "Type of Program", S("")),
                           Program_Category_OK |-> B(FALSE),
                           Program_Category_Remark |-> S("Fixture list sheet missing")]])))
  ELSE ProgramCategoryConvert(T, fixture, today,
                              ProgramCategoryCols(T), ProgramCategoryCols(fixture))

-----------------------------------------------------------------------------
(* duration_check(df) *)

\* pd.to_datetime(date.astype(str) + " " + time.astype(str), errors="coerce",
\* dayfirst=True, utc=True) of one row: the text parses when it is a day
\* followed by a time of day
Combine(date, time) ==
  LET d == Str(date)
      t == Str(time)
      isDay == d.s = "date" \/ (d.s = "datetime" /\ d.n % 1440 = 0)
  IN IF isDay /\ t.s = "HH:MM:SS"
     THEN (IF d.s = "date" THEN d.n * 1440 ELSE d.n) + t.n
     ELSE NaT

\* the expected type of a duration in minutes
ExpectedByDuration(dur) ==
  IF dur >= 120 THEN "live"
  ELSE IF dur >= 60 THEN "repeat"
  ELSE IF dur >= 30 THEN "highlights"
  ELSE "magazine/support"

\* expected in text
InText(expected, text) == expected \in ValSubs(text)

DurationRow(col_type, col_desc, col_source, row) ==
  LET start == row["_StartDT"]
      end == row["_EndDT"]
      dur == end.n - start.n
      ptype == Lower(Text(GetOr(row, col_type, S(""))))
      desc == Lower(Text(GetOr(row, col_desc, S(""))))
      source == Lower(Text(GetOr(row, col_source, S(""))))
      expected == ExpectedByDuration(dur)
  IN IF IsNa(start) \/ IsNa(end)
     THEN [Duration_OK |-> B(FALSE), Duration_Mins |-> NaN,
           Duration_Remark |-> S("Invalid or missing Start/End UTC")]
     ELSE IF InText("bsa", source) /\ ptype \in {"live", "repeat"} /\ dur > 180
     THEN [Duration_OK |-> B(FALSE), Duration_Mins |-> N(dur),
           Duration_Remark |-> S("BSA Live/Repeat > 180 mins (Invalid)")]
     ELSE IF InText(expected, ptype) \/ InText(expected, desc)
     THEN [Duration_OK |-> B(TRUE), Duration_Mins |-> N(dur), Duration_Remark |-> S("OK")]
     ELSE [Duration_OK |-> B(FALSE), Duration_Mins |-> N(dur),
           Duration_Remark |-> S("Expected " \o expected \o ", found "
                                   \o (IF ptype # "" THEN ptype ELSE desc))]

duration_check(T) ==
  LET col_date == FirstCol(T, {"date", "gmt"})
      col_start == FirstCol(T, {"start", "utc"})
      col_end == FirstCol(T, {"end", "utc"})
      col_type == FirstCol(T, {"type"})
      col_desc == FirstCol(T, {"desc"})
      col_source == FirstCol(T, {"source"})
      n == NRows(T)
      T0 == SetCols(T, <<"Duration_OK", "Duration_Remark", "Duration_Mins">>,
                    Seq_([p \in 1..n |-> [Duration_OK |-> B(FALSE), Duration_Remark |-> S(""),
                                          Duration_Mins |-> S(None)]]))
      combined(c) == Seq_([p \in 1..n |-> TsCell(Combine(T.data[p][col_date], T.data[p][c]))])
      \* the try block: the first assignment that raises ends it
      T1 == IF col_date = None \/ col_start = None THEN T0
            ELSE SetCol(T0, "_StartDT", combined(col_start))
      T2 == IF col_date = None \/ col_start = None \/ col_end = None THEN T1
            ELSE SetCol(T1, "_EndDT", combined(col_end))
      handled == IF col_date = None \/ col_start = None \/ col_end = None
                 THEN "KeyError" ELSE ""
  IN IF ~HasCol(T2, "_EndDT") \/ ~HasCol(T2, "_StartDT")
     THEN Result(T2, "KeyError", handled)
     ELSE Result(SetCols(T2, <<"Duration_OK", "Duration_Remark", "Duration_Mins">>,
                         Seq_([p \in 1..n |->
                                 DurationRow(col_type, col_desc, col_source, T2.data[p])])),
                 "", handled)

-----------------------------------------------------------------------------
(* check_event_matchday_competition(df, bsr_path) *)

\* the fixture sheet as the check reads it: Competition renamed to Event
\* when there is no Event column, and the four columns it compares
\* normalised with astype(str).str.strip().str.lower()
EventFixture(fixture) ==
  LET rename == ~HasCol(fixture, "Event") /\ HasCol(fixture, "Competition")
      name(c) == IF rename /\ c = "Competition" THEN "Event" ELSE c
      cols == Seq_([i \in 1..Len(fixture.cols) |-> name(fixture.cols[i])])
      norm == {"Event", "Home Team", "Away Team", "Matchday"}
  IN [cols |-> cols,
      data |-> Seq_([q \in 1..Len(fixture.data) |->
                 Fn_([c \in Range(cols) |->
                    LET v == fixture.data[q][IF rename /\ c = "Event" THEN "Competition" ELSE c]
                    IN IF c \in norm THEN S(Lower(Strip(Text(v)))) ELSE v])])]

EventMatchdayRow(fixture, row) ==
  LET field(c) == Lower(Strip(Text(GetOr(row, c, S("")))))
      event == field("Event")
      home == field("Home Team")
      away == field("Away Team")
      matchday == field("Matchday")
      fx == EventFixture(fixture)
      lacking == {c \in {"Event", "Home Team", "Away Team", "Matchday"} : ~HasCol(fx, c)}
      first == IF "Event" \in lacking THEN "Event"
               ELSE IF "Home Team" \in lacking THEN "Home Team"
               ELSE IF "Away Team" \in lacking THEN "Away Team"
               ELSE "Matchday"
      match == {q \in 1..Len(fx.data) :
                  /\ fx.data[q]["Event"] = S(event)
                  /\ fx.data[q]["Home Team"] = S(home)
                  /\ fx.data[q]["Away Team"] = S(away)
                  /\ fx.data[q]["Matchday"] = S(matchday)}
      out(ok, remark, handled) ==
        [caught |-> handled,
         cells |-> [Event_Matchday_OK |-> B(ok), Event_Matchday_Remark |-> S(remark)]]
  IN IF event = "" \/ home = "" \/ away = "" \/ matchday = ""
     THEN out(FALSE, "Missing event/home/away/matchday", "")
     ELSE IF ~fixture.present THEN out(TRUE, "OK (fixture list missing)", "")
     ELSE IF lacking # {} THEN out(FALSE, "Error: '" \o first \o "'", "KeyError")
     ELSE IF match = {} THEN out(FALSE, "No matching fixture found", "")
     ELSE out(TRUE, "OK", "")

check_event_matchday_competition(T, fixture) ==
  LET rows == Seq_([p \in 1..NRows(T) |-> EventMatchdayRow(fixture, T.data[p])])
  IN Result(SetCols(T, <<"Event_Matchday_OK", "Event_Matchday_Remark">>,
                    Seq_([p \in 1..NRows(T) |-> rows[p].cells])),
            "",
            IF \E p \in 1..NRows(T) : rows[p].caught # "" THEN "KeyError" ELSE "")

-----------------------------------------------------------------------------
(* market_channel_consistency_check(df_bsr, rosco_path, bsr_path).  rosco  *)
(* is the Rosco workbook: a record [given, readable, sheet, cols, data]    *)
(* whose cols and data are those of its first sheet not named "general";   *)
(* fixture is the fixture sheet of the BSR workbook when bsr_path is       *)
(* given.                                                                  *)

\* the text a channel name is normalised to: bracketed text removed, the
\* part after a hyphen removed, punctuation to spaces, lower-cased
NormChannel(s) ==
  CASE s = "ESPN (HD)" -> "espn"
    [] s = "Sky-Sports" -> "sky"
    [] OTHER -> Lower(Strip(s))

normalize_channel(c) == IF IsNa(c) THEN "" ELSE NormChannel(Text(c))

valid_pairs(rosco) ==
  IF rosco.given /\ rosco.readable /\ rosco.sheet
     /\ {"ChannelCountry", "ChannelName"} \subseteq Range(rosco.cols)
  THEN {pr \in {<<Lower(Strip(Text(rosco.data[q]["ChannelCountry"]))),
                  normalize_channel(rosco.data[q]["ChannelName"])>> : q \in 1..Len(rosco.data)} :
          pr[1] # "" /\ pr[2] # ""}
  ELSE {}

\* the number of distinct "first column vs second column" keys of the
\* fixture sheet; 0 stands for None
expected_spain_fixtures(bsr_path, fixture) ==
  IF bsr_path /\ fixture.present /\ Len(fixture.cols) >= 2
  THEN Cardinality({<<Lower(Text(fixture.data[q][fixture.cols[1]])),
                      Lower(Text(fixture.data[q][fixture.cols[2]]))>> : q \in 1..Len(fixture.data)})
  ELSE 0

\* the three results of one row from its market, channel and program
\* description texts
MarketChannelJudge(pairs, market, channel, prog) ==
  LET noProg == prog = "" \/ Lower(prog) \in {"-", "nan", "none"}
      badPair == IF market = "" \/ channel = "" THEN "Missing market or channel"
                 ELSE IF pairs # {} /\ <<market, NormChannel(channel)>> \notin pairs
                 THEN "Market+Channel not found in ROSCO"
                 ELSE ""
  IN [Market_Channel_Consistency_OK |-> B(badPair = ""),
      Program_Description_OK |-> B(~noProg),
      Market_Channel_Program_Remark |->
        S(IF noProg /\ badPair # "" THEN "Missing program description; " \o badPair
          ELSE IF noProg THEN "Missing program description"
          ELSE IF badPair # "" THEN badPair
          ELSE "OK")]

MarketChannelRow(T, pairs, row) ==
  MarketChannelJudge(pairs,
                     Lower(Strip(Text(GetOr(row, "Market", S(""))))),
                     Strip(Text(GetOr(row, "TV-Channel", S("")))),
                     IF HasCol(T, "Program Description")
                     THEN Strip(Text(GetOr(row, "Program Description", S("")))) ELSE "")

\* the count of the live fixtures of Spain against the expected number
\* (0 stands for None): T1 is the table with the three columns assigned
MarketChannelFixtures(T1, expected) ==
  LET spain_rows == {p \in 1..NRows(T1) :
                       /\ Has(Text(T1.data[p]["Market"]), "spain")
                       /\ Has(Text(T1.data[p]["TV-Channel"]), "live")}
  IN IF expected = 0 THEN Returns(T1)
     ELSE IF ~HasCol(T1, "Market") \/ ~HasCol(T1, "TV-Channel") THEN Result(T1, "", "KeyError")
     ELSE IF Cardinality(spain_rows) # expected
     THEN Returns(SetCol(T1, "Market_Channel_Program_Remark",
                   Seq_([p \in 1..NRows(T1) |->
                      IF p \in spain_rows
                      THEN S(T1.data[p]["Market_Channel_Program_Remark"].s
                             \o "; Missing live fixtures (Spain): expected "
                             \o ToString(expected) \o ", found "
                             \o ToString(Cardinality(spain_rows)))
                      ELSE T1.data[p]["Market_Channel_Program_Remark"]])))
     ELSE Returns(T1)

market_channel_consistency_check(T, rosco, bsr_path, fixture) ==
  IF rosco.given /\ ~rosco.readable THEN Result(T, "", "Exception")
  ELSE MarketChannelFixtures(
         SetCols(T, <<"Market_Channel_Consistency_OK", "Program_Description_OK",
                      "Market_Channel_Program_Remark">>,
                 Seq_([p \in 1..NRows(T) |->
                         MarketChannelRow(T, valid_pairs(rosco), T.data[p])])),
         expected_spain_fixtures(bsr_path, fixture))

-----------------------------------------------------------------------------
(* domestic_market_check(df, league_keyword="F24 Spain", debug=False) *)

\* column.astype(str).str.strip() of one cell
StrStrip(c) ==
  LET x == Str(c)
  IN IF x.s \in {"HH:MM:SS", "datetime", "date", "number"} THEN x ELSE S(Strip(x.s))

league_keywords == {"f24 spain", "laliga", "liga", "primera", "segunda", "liga espanola"}

\* the result of one row without the last word given to highlights and
\* magazine rows
DomesticRowByCoverageOnly(rows, r) ==
  LET md == r["Matchday"]
      scope(x) == x["is_laliga"] = B(TRUE) /\ x["is_spain_market"] = B(TRUE)
      md_rows == {q \in 1..Len(rows) : scope(rows[q]) /\ rows[q]["Matchday"] = md}
      type_has(q, k) == Has(Text(rows[q]["Type of program"]), k)
      covered == \E q \in md_rows : type_has(q, "live") \/ type_has(q, "delayed")
      out(ok, remark) == [ok |-> S(ok), remark |-> S(remark)]
  IN IF r["is_spain_market"] # B(TRUE) THEN out("Not Applicable", "Other market, not applicable")
     ELSE IF ~scope(r) THEN out("Not Applicable", "Not Applicable")
     ELSE IF ~covered THEN out("FALSE", "No live/delayed coverage for matchday " \o Text(md))
     ELSE out("TRUE", "Partial coverage for matchday " \o Text(md))

DomesticRow(rows, r) ==
  LET md == r["Matchday"]
      scope(x) == x["is_laliga"] = B(TRUE) /\ x["is_spain_market"] = B(TRUE)
      md_rows == {q \in 1..Len(rows) : scope(rows[q]) /\ rows[q]["Matchday"] = md}
      type_has(q, k) == Has(Text(rows[q]["Type of program"]), k)
      live_present == \E q \in md_rows : type_has(q, "live")
      delayed_present == \E q \in md_rows : type_has(q, "delayed")
      out(ok, remark) == [ok |-> S(ok), remark |-> S(remark)]
  IN IF r["is_spain_market"] # B(TRUE) THEN out("Not Applicable", "Other market, not applicable")
     ELSE IF Has(Text(r["Type of program"]), "highlight") \/ Has(Text(r["Type of program"]), "magazine")
     THEN out("Not Applicable", "Not applicable for highlights or magazine programs")
     ELSE IF ~scope(r) THEN out("Not Applicable", "Not Applicable")
     ELSE IF ~live_present /\ ~delayed_present
     THEN out("FALSE", "No live/delayed coverage for matchday " \o Text(md))
     ELSE IF live_present /\ delayed_present
     THEN out("TRUE", "Live & delayed coverage present for matchday " \o Text(md))
     ELSE out("TRUE", "Partial coverage for matchday " \o Text(md))

domestic_market_check(T) ==
  LET required_cols == <<"Market", "Competition", "Event", "Type of program", "Matchday">>
      n == NRows(T)
      ok_col == "Domestic Market Coverage Check_OK"
      remark_col == "Domestic Market Coverage Remark"
      T1 == SetCols(T, required_cols,
                    Seq_([p \in 1..n |-> [c \in Range(required_cols) |-> StrStrip(T.data[p][c])]]))
      flags(r) ==
        [is_spain_market |-> B(Has(Text(r["Market"]), "spain")),
         is_laliga |-> B(\/ ValSubs(Lower(Text(r["Competition"]))) \cap league_keywords # {}
                         \/ ValSubs(Lower(Text(r["Event"]))) \cap league_keywords # {})]
      T2 == SetCols(T1, <<"is_spain_market", "is_laliga">>, Seq_([p \in 1..n |-> flags(T1.data[p])]))
      T3 == SetAll(SetAll(T2, ok_col, S("Not Applicable")), remark_col, S("Not Applicable"))
      none == \A p \in 1..n : ~(T2.data[p]["is_laliga"] = B(TRUE)
                                  /\ T2.data[p]["is_spain_market"] = B(TRUE))
      res == Seq_([p \in 1..n |-> DomesticRow(T2.data, T2.data[p])])
      T4 == SetCols(T2, <<ok_col, remark_col>>,
                    Seq_([p \in 1..n |-> (ok_col :> res[p].ok) @@ (remark_col :> res[p].remark)]))
  IN IF ~(Range(required_cols) \subseteq Range(T.cols))
     THEN Returns(SetAll(SetAll(T, ok_col, S("Not Applicable")),
                         remark_col, S("Required column missing")))
     ELSE IF none THEN Returns(T3)
     ELSE Returns(DropCols(T4, {"is_spain_market", "is_laliga"}))

-----------------------------------------------------------------------------
(* rates_and_ratings_check(df) *)

\* is_present(val) of the rates check with a zero taken for an empty cell
RatesZeroEmpty(c) ==
  IF IsNa(c) \/ Falsy(c) THEN FALSE
  ELSE IF c.t = "str" THEN Lower(Strip(Text(c))) \notin {"nan", "none", "na", "n/a"}
  ELSE TRUE

\* is_present(val) of the rates check
rates_is_present(c) ==
  IF IsNa(c) THEN FALSE
  ELSE IF c.t = "str"
  THEN Strip(Text(c)) # "" /\ Lower(Strip(Text(c))) \notin {"nan", "none", "na", "n/a"}
  ELSE TRUE

rates_and_ratings_check(T) ==
  LET find(subs) == FirstCol(T, subs)
      est0 == OrElse(OrElse(find({"aud", "estim"}), find({"aud. estimates"})),
                     find({"aud. estimates", "000"}))
      met0 == OrElse(OrElse(find({"aud", "meter"}), find({"aud metered"})),
                     find({"aud", "metered", "3+"}))
      est_col == OrElse(est0, "Aud. Estimates ['000s]")
      met_col == OrElse(met0, "Aud Metered (000s) 3+")
      T1 == IF HasCol(T, est_col) THEN T ELSE SetAll(T, est_col, NA)
      T2 == IF HasCol(T1, met_col) THEN T1 ELSE SetAll(T1, met_col, NA)
      res(r) ==
        LET present_est == rates_is_present(r[est_col])
            present_met == rates_is_present(r[met_col])
        IN IF ~present_est /\ ~present_met
           THEN [Rates_Ratings_QC_OK |-> B(FALSE),
                 Rates_Ratings_QC_Remark |-> S("Missing audience ratings (both empty)")]
           ELSE IF present_est /\ present_met
           THEN [Rates_Ratings_QC_OK |-> B(FALSE),
                 Rates_Ratings_QC_Remark |-> S("Invalid: both metered and estimated present")]
           ELSE [Rates_Ratings_QC_OK |-> B(TRUE),
                 Rates_Ratings_QC_Remark |-> S("Valid: one rating source available")]
  IN Returns(SetCols(T2, <<"Rates_Ratings_QC_OK", "Rates_Ratings_QC_Remark">>,
                     Seq_([p \in 1..NRows(T2) |-> res(T2.data[p])])))

-----------------------------------------------------------------------------
(* duplicated_market_check(df, macro_path, league_keyword="F24 Spain").    *)
(* macro is the macro workbook: a record [given, sheet, cols, data]; given *)
(* says that a path was passed and the file exists, sheet that it has a    *)
(* "Data Core" sheet, whose columns and rows are cols and data.            *)

DuplicatedMarketRow(duplicate_markets_clean, r) ==
  LET market == Text(r["Market_clean"])
      comp == Text(r["Competition_clean"])
      event == Text(r["Event_clean"])
      out(ok, remark) == [ok |-> S(ok), remark |-> S(remark)]
  IN IF "f24 spain" \notin ValSubs(comp) /\ "f24 spain" \notin ValSubs(event)
     THEN out("Not Applicable", "Different competition/event")
     ELSE IF market \in duplicate_markets_clean
     THEN out("FALSE", "Duplicate market (" \o market \o ") found in Macro")
     ELSE out("TRUE", "Valid market (" \o market \o ") not listed as duplicate")

duplicated_market_check(T, macro) ==
  LET result_col == "Duplicated Markets Check_OK"
      remark_col == "Duplicated Markets Remark"
      n == NRows(T)
      both(X, ok, remark) == SetAll(SetAll(X, result_col, S(ok)), remark_col, S(remark))
      failed(X, e, text) == Result(both(X, "Error", text), "", e)
      macro_filtered == {q \in 1..Len(macro.data) : Has(Text(macro.data[q]["Projects"]), "f24 spain")}
      duplicate_markets == {macro.data[q]["Dup Market"] : q \in macro_filtered} \ {NaN}
      duplicate_markets_clean == {Lower(Strip(Text(m))) : m \in duplicate_markets}
      clean(X, c) == SetCol(X, c \o "_clean",
                            Seq_([p \in 1..n |-> S(Lower(Strip(Text(X.data[p][c]))))]))
      T1 == clean(T, "Market")
      T2 == clean(T1, "Competition")
      T3 == clean(T2, "Event")
      res == Seq_([p \in 1..n |-> DuplicatedMarketRow(duplicate_markets_clean, T3.data[p])])
      T4 == SetCols(T3, <<result_col, remark_col>>,
                    Seq_([p \in 1..n |-> (result_col :> res[p].ok) @@ (remark_col :> res[p].remark)]))
  IN IF ~macro.given THEN Returns(both(T, "Not Applicable", "Macro file missing"))
     ELSE IF ~macro.sheet THEN failed(T, "ValueError", "Worksheet named 'Data Core' not found")
     ELSE IF ~HasCol(macro, "Projects") /\ ~HasCol(macro, "Dup Market")
     THEN failed(T, "ValueError", "Missing columns in Macro file: ['Projects', 'Dup Market']")
     ELSE IF ~HasCol(macro, "Projects")
     THEN failed(T, "ValueError", "Missing columns in Macro file: ['Projects']")
     ELSE IF ~HasCol(macro, "Dup Market")
     THEN failed(T, "ValueError", "Missing columns in Macro file: ['Dup Market']")
     ELSE IF macro_filtered = {}
     THEN Returns(both(T, "Not Applicable", "No matching league (F24 Spain) found in Macro"))
     ELSE IF \E m \in duplicate_markets : m.t # "str"
     THEN failed(T, "AttributeError", "'int' object has no attribute 'strip'")
     ELSE IF ~HasCol(T, "Market") THEN failed(T, "KeyError", "'Market'")
     ELSE IF ~HasCol(T, "Competition") THEN failed(T1, "KeyError", "'Competition'")
     ELSE IF ~HasCol(T, "Event") THEN failed(T2, "KeyError", "'Event'")
     ELSE Returns(DropCols(T4, {"Market_clean", "Competition_clean", "Event_clean"}))

-----------------------------------------------------------------------------
(* country_channel_id_check(df) *)

\* norm(x)
NormId(c) == IF IsNa(c) THEN "" ELSE Strip(Text(c))

\* list(map.values()).count(v)
CountValues(map, v) == Cardinality({k \in DOMAIN map : map[k] = v})

\* one pass of the row loop in which a differing ID takes the place of the
\* recorded one
CountryChannelStepLastSeen(st, r) ==
  LET channel == NormId(Get(r, "TV-Channel"))
      channel_id == NormId(Get(r, "Channel ID"))
      market == NormId(Get(r, "Market"))
      market_id == NormId(Get(r, "Market ID"))
      chanClash == channel # "" /\ channel \in DOMAIN st.chan /\ st.chan[channel] # channel_id
      mktClash == market # "" /\ market \in DOMAIN st.mkt /\ st.mkt[market] # market_id
      chan == IF channel # "" THEN (channel :> channel_id) @@ st.chan ELSE st.chan
      mkt == IF market # "" THEN (market :> market_id) @@ st.mkt ELSE st.mkt
      idShared == channel_id # "" /\ CountValues(chan, channel_id) > 1
      mktShared == market_id # "" /\ CountValues(mkt, market_id) > 1
  IN [chan |-> chan, mkt |-> mkt,
      cells |-> [Market_Channel_ID_OK |-> B(~(chanClash \/ mktClash \/ idShared \/ mktShared)),
                 Market_Channel_ID_Remark |-> S("")]]

\* one pass of the row loop from the maps st.chan and st.mkt: the maps
\* after the row and the row's two cells
CountryChannelStep(st, r) ==
  LET channel == NormId(Get(r, "TV-Channel"))
      channel_id == NormId(Get(r, "Channel ID"))
      market == NormId(Get(r, "Market"))
      market_id == NormId(Get(r, "Market ID"))
      chanClash == channel # "" /\ channel \in DOMAIN st.chan /\ st.chan[channel] # channel_id
      mktClash == market # "" /\ market \in DOMAIN st.mkt /\ st.mkt[market] # market_id
      chan == IF channel # "" /\ ~chanClash THEN (channel :> channel_id) @@ st.chan ELSE st.chan
      mkt == IF market # "" /\ ~mktClash THEN (market :> market_id) @@ st.mkt ELSE st.mkt
      idShared == channel_id # "" /\ CountValues(chan, channel_id) > 1
      mktShared == market_id # "" /\ CountValues(mkt, market_id) > 1
      remarks ==
        (IF chanClash THEN <<"Channel '" \o channel \o "' has multiple IDs ("
                              \o st.chan[channel] \o " vs " \o channel_id \o ")">> ELSE <<>>)
        \o (IF mktClash THEN <<"Market '" \o market \o "' has multiple IDs ("
                               \o st.mkt[market] \o " vs " \o market_id \o ")">> ELSE <<>>)
        \o (IF idShared THEN <<"Channel ID '" \o channel_id \o "' assigned to multiple channels">>
            ELSE <<>>)
        \o (IF mktShared THEN <<"Market ID '" \o market_id \o "' assigned to multiple markets">>
            ELSE <<>>)
  IN [chan |-> chan, mkt |-> mkt,
      cells |-> [Market_Channel_ID_OK |-> B(remarks = <<>>),
                 Market_Channel_ID_Remark |-> S(IF remarks = <<>> THEN "OK" ELSE Join(remarks))]]

country_channel_id_check(T) ==
  LET n == NRows(T)
      F[i \in 0..n] ==
        IF i = 0 THEN [chan |-> <<>>, mkt |-> <<>>, cells |-> <<>>]
        ELSE CountryChannelStep(F[i-1], T.data[i])
  IN Returns(SetCols(T, <<"Market_Channel_ID_OK", "Market_Channel_ID_Remark">>,
                     Seq_([p \in 1..n |-> F[p].cells])))

-----------------------------------------------------------------------------
(* client_lstv_ott_check(df_worksheet, project_config=None) *)

expected_sources == {"lstv", "client", "ott"}

\* df.groupby(key)[val].nunique() > 1: the keys with more than one value
MultiValued(T, key, val) ==
  {k \in {T.data[p][key] : p \in 1..NRows(T)} :
     /\ ~IsNa(k)
     /\ Cardinality({T.data[p][val] : p \in {q \in 1..NRows(T) : T.data[q][key] = k}}
                    \ {NaN, NA, NaTCell}) > 1}

\* the check with the first finding of a row as its whole remark
ClientFirstFindingOnly(T) ==
  LET ids == HasCol(T, "Market ID") /\ HasCol(T, "Channel ID")
      multi_market_channels == IF ids THEN MultiValued(T, "Channel ID", "Market ID") ELSE {}
      multi_channel_ids == IF ids THEN MultiValued(T, "Market ID", "Channel ID") ELSE {}
      pay_free_col == IF HasCol(T, "Pay/Free TV") THEN "Pay/Free TV" ELSE None
      res(r) ==
        LET val == Lower(Strip(Text(GetOr(r, pay_free_col, S("")))))
            remark ==
              IF Get(r, "Channel ID") \in multi_market_channels
              THEN "Channel assigned to multiple Market IDs"
              ELSE IF Get(r, "Market ID") \in multi_channel_ids
              THEN "Market ID assigned to multiple Channel IDs"
              ELSE IF pay_free_col # None /\ ValSubs(val) \cap expected_sources = {}
              THEN "Missing required source (Client/LSTV/OTT): "
                   \o Text(GetOr(r, pay_free_col, S("")))
              ELSE "OK"
        IN [Client_LSTV_OTT_OK |-> B(remark = "OK"), Client_LSTV_OTT_Remark |-> S(remark)]
  IN Returns(SetCols(T, <<"Client_LSTV_OTT_OK", "Client_LSTV_OTT_Remark">>,
                     Seq_([p \in 1..NRows(T) |-> res(T.data[p])])))

client_lstv_ott_check(T) ==
  LET ids == HasCol(T, "Market ID") /\ HasCol(T, "Channel ID")
      multi_market_channels == IF ids THEN MultiValued(T, "Channel ID", "Market ID") ELSE {}
      multi_channel_ids == IF ids THEN MultiValued(T, "Market ID", "Channel ID") ELSE {}
      pay_free_col == IF HasCol(T, "Pay/Free TV") THEN "Pay/Free TV" ELSE None
      res(r) ==
        LET val == Lower(Strip(Text(GetOr(r, pay_free_col, S("")))))
            remarks ==
              (IF Get(r, "Channel ID") \in multi_market_channels
               THEN <<"Channel assigned to multiple Market IDs">> ELSE <<>>)
              \o (IF Get(r, "Market ID") \in multi_channel_ids
                  THEN <<"Market ID assigned to multiple Channel IDs">> ELSE <<>>)
              \o (IF pay_free_col # None /\ ValSubs(val) \cap expected_sources = {}
                  THEN <<"Missing required source (Client/LSTV/OTT): "
                         \o Text(GetOr(r, pay_free_col, S("")))>> ELSE <<>>)
        IN [Client_LSTV_OTT_OK |-> B(remarks = <<>>),
            Client_LSTV_OTT_Remark |-> S(IF remarks = <<>> THEN "OK" ELSE Join(remarks))]
  IN Returns(SetCols(T, <<"Client_LSTV_OTT_OK", "Client_LSTV_OTT_Remark">>,
                     Seq_([p \in 1..NRows(T) |-> res(T.data[p])])))

-----------------------------------------------------------------------------
(* overlap_duplicate_daybreak_check(df) *)

\* gap_min < 0 or gap_min > 2
DaybreakGapFails(gap_min) == gap_min < 0 \/ gap_min > 2

\* dup_mask_full.iloc[i] for the row label i: the position read (1-based),
\* 0 when iloc raises IndexError
IlocPos(i, n) ==
  IF i >= 0 /\ i < n THEN i + 1
  ELSE IF i < 0 /\ i >= 0 - n THEN n + i + 1
  ELSE 0

\* The columns the check resolves by substring of the header
OvCols(T) ==
  LET find_col(sub) == FirstCol(T, {sub})
  IN [channel    |-> OrElse(find_col("channel"), "TV Channel"),
      channel_id |-> OrElse(find_col("channel id"), "Channel ID"),
      date_utc   |-> OrElse(OrElse(find_col("date (utc"), find_col("date")), "Date (UTC/GMT)"),
      start_utc  |-> OrElse(OrElse(find_col("start (utc"), find_col("start")), "Start (UTC)"),
      end_utc    |-> OrElse(OrElse(find_col("end (utc"), find_col("end")), "End (UTC)"),
      payfree    |-> OrElse(find_col("pay"), "Pay/Free"),
      combined   |-> OrElse(find_col("combined"), "Combined")]

\* _qc_start_dt / _qc_end_dt: pd.to_datetime(df[c].astype(str).str.strip(),
\* format="%H:%M:%S", errors="coerce") when the column exists, else NaT
QcTimes(T, c) ==
  Seq_([p \in 1..NRows(T) |->
          IF HasCol(T, c) THEN ParseHMS(Str(T.data[p][c])) ELSE NaT])

\* work.sort_values(by=[channel, date, _qc_start_dt], na_position="last"):
\* the key of the row at position p (a missing value sorts last)
SortKey(T, C, starts, p) ==
  LET key(c) == IF HasCol(T, c)
                THEN IF IsNa(T.data[p][c]) THEN <<1, 0>> ELSE <<0, CellRank(T.data[p][c])>>
                ELSE <<0, 0>>
  IN <<key(C.channel), key(C.date_utc),
       IF starts[p] = NaT THEN <<1, 0>> ELSE <<0, starts[p]>>>>

PairLess(a, b) == a[1] < b[1] \/ (a[1] = b[1] /\ a[2] < b[2])

KeyLess(a, b) ==
  \/ PairLess(a[1], b[1])
  \/ a[1] = b[1] /\ PairLess(a[2], b[2])
  \/ a[1] = b[1] /\ a[2] = b[2] /\ PairLess(a[3], b[3])

\* the sort is stable: SortPerm(keys)[k] is the position in df of work's row k
SortPerm(keys) ==
  LET n == Len(keys)
      less(q, p) == KeyLess(keys[q], keys[p]) \/ (keys[q] = keys[p] /\ q < p)
  IN Seq_([k \in 1..n |->
            CHOOSE p \in 1..n : Cardinality({q \in 1..n : less(q, p)}) = k - 1])

\* overlap_mask of work's row k, whose predecessor in work is row k-1;
\* cur and prv are the two rows, cs the start of cur and pe the end of prv
OverlapMask(T, C, cur, prv, cs, pe) ==
  LET same(c) == HasCol(T, c) /\ ~IsNa(cur[c]) /\ cur[c] = prv[c]
      is_ott == /\ HasCol(T, C.payfree)
                /\ LET v == cur[C.payfree]
                   IN v.t = "str" /\ ValSubs(Lower(Text(v))) \cap {"ott", "internet", "www"} # {}
  IN /\ same(C.channel)
     /\ same(C.date_utc)
     /\ ~is_ott
     /\ cs # NaT
     /\ pe # NaT
     /\ cs < pe

\* df_in.duplicated(subset=dup_cols, keep=False), by position
DupCols(T, C) ==
  {c \in {C.channel, C.date_utc, C.start_utc, C.end_utc} : HasCol(T, c)}

DupMaskFull(T, C) ==
  LET dc == DupCols(T, C)
  IN Seq_([p \in 1..NRows(T) |->
            /\ dc # {}
            /\ \E q \in 1..NRows(T) :
                 q # p /\ \A c \in dc : T.data[q][c] = T.data[p][c]])

\* dup_mask_work of the row labelled i: the mask is read with iloc at the
\* label; an IndexError leaves every row unflagged
DupMaskWork(T, full, i) ==
  LET n == NRows(T)
      raises == \E p \in 1..n : IlocPos(T.index[p], n) = 0
  IN ~raises /\ full[IlocPos(i, n)]

\* the daybreak loop on a row cur of work and its predecessor prv: whether
\* cur continues prv (same channel, channel id and combined), and whether
\* cur is flagged
DaybreakSame(T, C, cur, prv) ==
  LET same(c) == HasCol(T, c) /\ ~IsNa(cur[c]) /\ cur[c] = prv[c]
  IN same(C.channel) /\ same(C.channel_id) /\ same(C.combined)

DaybreakMask(T, C, cur, prv, cs, pe) ==
  /\ pe # NaT /\ cs # NaT
  /\ IF DaybreakSame(T, C, cur, prv)
     THEN DaybreakGapFails(cs - pe)
     ELSE (cs \div 1440) # (pe \div 1440)   \* .day of the two timestamps

\* The result columns of the row at position p of df, which is row k of the
\* sorted work table (work's row k is df's row perm[k]); dup is its
\* dup_mask_work
OverlapResult(T, C, starts, ends, perm, p, k, dup) ==
  LET ovl == /\ k > 1
             /\ OverlapMask(T, C, T.data[perm[k]], T.data[perm[k - 1]],
                            starts[perm[k]], ends[perm[k - 1]])
      dbk == /\ k > 1
             /\ DaybreakMask(T, C, T.data[perm[k]], T.data[perm[k - 1]],
                             starts[perm[k]], ends[perm[k - 1]])
  IN [Overlap_OK |-> B(~ovl),
      Overlap_Remark |-> S(IF ovl THEN "Overlap detected between consecutive events" ELSE ""),
      Duplicate_OK |-> B(~dup),
      Duplicate_Remark |-> S(IF dup THEN "Duplicate row found" ELSE ""),
      Daybreak_OK |-> B(~dbk),
      Daybreak_Remark |-> S(IF ~dbk THEN ""
                            ELSE IF DaybreakSame(T, C, T.data[perm[k]], T.data[perm[k - 1]])
                            THEN "Time gap too large for continuation"
                            ELSE "Different program continuation across days")]

\* Map back: work.set_index("_orig_index") and reindex(out.index) give the
\* row at position p of df the results of the row of work with its label
OverlapMapBack(T, C, starts, ends, perm, full) ==
  SetCols(T, <<"Overlap_OK", "Overlap_Remark", "Duplicate_OK",
               "Duplicate_Remark", "Daybreak_OK", "Daybreak_Remark">>,
          Seq_([p \in 1..NRows(T) |->
             OverlapResult(T, C, starts, ends, perm, p,
                           CHOOSE k \in 1..NRows(T) : T.index[perm[k]] = T.index[p],
                           DupMaskWork(T, full, T.index[p]))]))

\* The work table: the parsed times, the sort and the duplicate mask
OverlapWork(T, C, starts, ends) ==
  OverlapMapBack(T, C, starts, ends,
                 SortPerm(Seq_([p \in 1..NRows(T) |-> SortKey(T, C, starts, p)])),
                 DupMaskFull(T, C))

OverlapTimes(T, C) ==
  OverlapWork(T, C, QcTimes(T, C.start_utc), QcTimes(T, C.end_utc))

overlap_duplicate_daybreak_check(T) ==
  IF \E p, q \in 1..NRows(T) : p # q /\ T.index[p] = T.index[q]
  THEN Result(T, "ValueError", "")   \* reindex on duplicate labels
  ELSE Result(OverlapTimes(T, OvCols(T)), "",
              IF \E p \in 1..NRows(T) : IlocPos(T.index[p], NRows(T)) = 0
              THEN "IndexError" ELSE "")

-----------------------------------------------------------------------------
(* The tables the overlap check is run on *)

OvHeader ==
  <<"Market", "TV-Channel", "Channel ID", "Date (UTC/GMT)", "Start (UTC)",
    "End (UTC)", "Pay/Free TV", "Combined">>

Intervals ==
  { <<HMS(600), HMS(660)>>, <<HMS(630), HMS(690)>>, <<HMS(660), HMS(720)>>,
    <<HMS(663), HMS(720)>>, <<S("bad"), HMS(660)>>, <<HMS(600), NaN>> }

OvRow(market, channel, date, iv, pay) ==
  Fn_([c \in Range(OvHeader) |->
     CASE c = "Market"         -> market
       [] c = "TV-Channel"     -> channel
       [] c = "Channel ID"     -> IF channel.t = "str" THEN N(StrRank(channel.s)) ELSE NaN
       [] c = "Date (UTC/GMT)" -> date
       [] c = "Start (UTC)"    -> iv[1]
       [] c = "End (UTC)"      -> iv[2]
       [] c = "Pay/Free TV"    -> pay
       [] c = "Combined"       -> S("F24 Spain")])

OvRows ==
  {OvRow(S(m), S(ch), TS(0), iv, S("Pay TV")) :
      m \in {"Spain", "UK"}, ch \in {"ESPN", "Sky"}, iv \in Intervals}
  \cup {OvRow(S("Spain"), S("ESPN"), TS(1440), <<HMS(630), HMS(690)>>, S("Pay TV")),
        OvRow(S("Spain"), S("ESPN"), TS(0), <<HMS(630), HMS(690)>>, S("OTT")),
        OvRow(S("Spain"), NaN, TS(0), <<HMS(630), HMS(690)>>, S("Pay TV"))}

Tables(rows, n) == UNION {{Seq_(d) : d \in [1..k -> rows]} : k \in 0..n}

RangeIndex(n) == [p \in 1..n |-> p - 1]

-----------------------------------------------------------------------------
(* The inputs of a run: the monitoring period (timestamps), the current    *)
(* day, the fixture sheet of the BSR workbook, the Rosco workbook, the     *)
(* macro workbook and the configured daybreak tolerance.                   *)

Sheet(cols, rows) == [present |-> TRUE, cols |-> cols, data |-> rows]

NoFixture == [present |-> FALSE, cols |-> <<>>, data |-> <<>>]

FixtureRow(cols, home, away, start, end, event, matchday) ==
  Fn_([c \in Range(cols) |->
     CASE c = "Home Team" -> S(home)
       [] c = "Away Team" -> S(away)
       [] c \in {"Start", "Start (UTC)"} -> start
       [] c \in {"End", "End (UTC)"} -> end
       [] c \in {"Event", "Competition"} -> S(event)
       [] c = "Matchday" -> S(matchday)])

FixtureOf(cols, timed) ==
  Sheet(cols,
        <<FixtureRow(cols, "Real Madrid", "Barcelona",
                     IF timed THEN TS(600) ELSE HMS(600), IF timed THEN TS(720) ELSE HMS(720),
                     "F24 Spain", "MD1"),
          FixtureRow(cols, "Sevilla", "Real Madrid",
                     IF timed THEN TS(2040) ELSE HMS(600), IF timed THEN TS(2160) ELSE HMS(720),
                     "F24 Spain", "MD2")>>)

GoodFixture == FixtureOf(<<"Home Team", "Away Team", "Start", "End", "Event", "Matchday">>, TRUE)

\* a fixture sheet with no home-team column
NoHomeFixture == FixtureOf(<<"Away Team", "Start", "End", "Event", "Matchday">>, TRUE)

\* a fixture sheet whose time columns bear the names of the table's, with
\* times of day as text
SameNameFixture ==
  FixtureOf(<<"Home Team", "Away Team", "Start (UTC)", "End (UTC)", "Competition", "Matchday">>,
            FALSE)

NoRosco == [given |-> FALSE, readable |-> FALSE, sheet |-> FALSE, cols |-> <<>>, data |-> <<>>]

UnreadableRosco == [NoRosco EXCEPT !.given = TRUE]

GoodRosco ==
  [given |-> TRUE, readable |-> TRUE, sheet |-> TRUE,
   cols |-> <<"ChannelCountry", "ChannelName">>,
   data |-> <<[ChannelCountry |-> S("Spain"), ChannelName |-> S("ESPN (HD)")],
              [ChannelCountry |-> S("UK"), ChannelName |-> S("Sky-Sports")]>>]

NoMacro == [given |-> FALSE, sheet |-> FALSE, cols |-> <<>>, data |-> <<>>]

NoSheetMacro == [NoMacro EXCEPT !.given = TRUE]

MacroHeader == <<"Projects", "Orig Market", "Orig Channel", "Dup Market", "Dup Channel">>

MacroOf(project) ==
  [given |-> TRUE, sheet |-> TRUE, cols |-> MacroHeader,
   data |-> <<Fn_([c \in Range(MacroHeader) |->
                CASE c = "Projects" -> S(project)
                  [] c = "Orig Market" -> S("Spain")
                  [] c = "Dup Market" -> S("UK")
                  [] OTHER -> S("ESPN")])>>]

EnvOf(tolerance, today, fixture, rosco, macro) ==
  [daybreak_gap_tolerance_min |-> tolerance,
   start_date |-> 0, end_date |-> 1440, today |-> today,
   fixture |-> fixture, rosco |-> rosco, macro |-> macro]

Config == {EnvOf(t, 0, NoFixture, NoRosco, NoMacro) : t \in {2, 5}}

Envs ==
  {EnvOf(5, 0, GoodFixture, GoodRosco, MacroOf("F24 Spain")),
   EnvOf(5, 0, NoFixture, NoRosco, NoMacro),
   EnvOf(5, 0, NoHomeFixture, UnreadableRosco, NoSheetMacro),
   EnvOf(5, 3, SameNameFixture, GoodRosco, MacroOf("Cup Final"))}

InitOverlap ==
  /\ \E d \in Tables(OvRows, MaxRows) :
       df = [cols |-> OvHeader, data |-> d, index |-> RangeIndex(Len(d))]
  /\ loaded = df
  /\ env \in Config
  /\ ran = <<>>
  /\ exc = ""
  /\ caught = ""
  /\ pc = "lib"

\* df = check(df, ...): a call of a check from the loaded table on
Call(name, r) ==
  /\ pc = "lib"
  /\ exc = ""
  /\ Len(ran) < MaxChecks
  /\ df' = r.df
  /\ exc' = r.exc
  /\ caught' = r.caught
  /\ ran' = Append(ran, name)
  /\ UNCHANGED <<loaded, env, pc>>

Overlap == Call("overlap_duplicate_daybreak_check", overlap_duplicate_daybreak_check(df))

SpecOverlap == InitOverlap /\ [][Overlap]_vars

-----------------------------------------------------------------------------
(* The overlap check called on a table whose row labels are not the        *)
(* default 0..n-1 (a filtered, re-ordered or concatenated table).          *)

MaxIndexRows == 3

\* the labels of the rows: a permutation of the default labels, or labels
\* that skip numbers (the rows a filter kept)
IndexLabels == {0, 1, 2, 5}

IndexRows ==
  {OvRow(S("Spain"), S("ESPN"), TS(0), <<HMS(600), HMS(660)>>, S("Pay TV")),
   OvRow(S("Spain"), S("ESPN"), TS(0), <<HMS(630), HMS(690)>>, S("Pay TV")),
   OvRow(S("UK"), S("Sky"), TS(0), <<HMS(600), HMS(660)>>, S("Pay TV")),
   OvRow(S("UK"), S("Sky"), TS(0), <<S("bad"), HMS(660)>>, S("Pay TV"))}

InitIndex ==
  /\ \E d \in Tables(IndexRows, MaxIndexRows) :
       \E labels \in [1..Len(d) -> IndexLabels] :
         /\ \A p, q \in 1..Len(d) : labels[p] = labels[q] => p = q
         /\ df = [cols |-> OvHeader, data |-> d, index |-> Seq_(labels)]
  /\ loaded = df
  /\ env \in Config
  /\ ran = <<>>
  /\ exc = ""
  /\ caught = ""
  /\ pc = "lib"

SpecIndex == InitIndex /\ [][Overlap]_vars

-----------------------------------------------------------------------------
(* The checks of the rule engine called in any order on a loaded table *)

FullHeader ==
  <<"Market", "Market ID", "TV-Channel", "Channel ID", "Date (UTC/GMT)", "Start (UTC)",
    "End (UTC)", "Type of program", "Competition", "Event", "Matchday", "Home Team",
    "Away Team", "Pay/Free TV", "Combined", "Source", "Program Description",
    "Aud. Estimates ['000s]", "Aud Metered (000s) 3+">>

\* the headers of the tables: the full one, and the full one less some columns
Headers ==
  {SelectSeq2(FullHeader, Range(FullHeader) \ drop) :
     drop \in {{}, {"Date (UTC/GMT)"}, {"Competition", "Market ID"},
               {"Aud. Estimates ['000s]", "Aud Metered (000s) 3+", "Home Team", "Source",
                "Pay/Free TV"}}}

BaseRow ==
  Fn_([c \in Range(FullHeader) |->
     CASE c = "Market" -> S("Spain")
       [] c = "Market ID" -> N(1)
       [] c = "TV-Channel" -> S("ESPN")
       [] c = "Channel ID" -> N(1)
       [] c = "Date (UTC/GMT)" -> TS(0)
       [] c = "Start (UTC)" -> HMS(600)
       [] c = "End (UTC)" -> HMS(720)
       [] c = "Type of program" -> S("Live")
       [] c = "Competition" -> S("LaLiga")
       [] c = "Event" -> S("F24 Spain")
       [] c = "Matchday" -> S("MD1")
       [] c = "Home Team" -> S("Real Madrid")
       [] c = "Away Team" -> S("Barcelona")
       [] c = "Pay/Free TV" -> S("Pay TV")
       [] c = "Combined" -> S("F24 Spain")
       [] c = "Source" -> S("BSA")
       [] c = "Program Description" -> S("Match")
       [] c = "Aud. Estimates ['000s]" -> N(5)
       [] c = "Aud Metered (000s) 3+" -> NaN])

\* BaseRow with the cells of the record changes replaced
RowWith(changes) ==
  Fn_([c \in Range(FullHeader) |-> IF c \in DOMAIN changes THEN changes[c] ELSE BaseRow[c]])

CheckRows ==
  {BaseRow,
   RowWith(("Market" :> S("UK")) @@ ("Market ID" :> N(2)) @@ ("TV-Channel" :> S("Sky"))
           @@ ("Channel ID" :> N(2)) @@ ("Type of program" :> S("Highlights"))
           @@ ("Start (UTC)" :> HMS(630)) @@ ("End (UTC)" :> HMS(690))
           @@ ("Pay/Free TV" :> S("OTT"))),
   RowWith(("Date (UTC/GMT)" :> TS(2880)) @@ ("Type of program" :> S("Delayed"))
           @@ ("Home Team" :> NaN) @@ ("Aud. Estimates ['000s]" :> NaN)
           @@ ("Matchday" :> S("MD2")) @@ ("Start (UTC)" :> HMS(690))),
   RowWith(("Start (UTC)" :> S("bad")) @@ ("Source" :> NaN) @@ ("Program Description" :> NaN)
           @@ ("Aud Metered (000s) 3+" :> N(0)) @@ ("Pay/Free TV" :> S("Client"))
           @@ ("Type of program" :> S("Magazine"))),
   RowWith(("Market" :> S("UK")) @@ ("Channel ID" :> N(2)) @@ ("Event" :> S("Cup Final"))
           @@ ("Competition" :> S("Premier League")) @@ ("Home Team" :> S("Sevilla"))),
   RowWith(("Date (UTC/GMT)" :> NaN) @@ ("Type of program" :> S("Repeat"))
           @@ ("End (UTC)" :> HMS(1000)) @@ ("Matchday" :> NaN)),
   RowWith(("Type of program" :> S("Delayed")) @@ ("Start (UTC)" :> HMS(700))
           @@ ("End (UTC)" :> HMS(820)) @@ ("Aud Metered (000s) 3+" :> N(3)))}

MaxCheckRows == 2

\* a row restricted to the columns of a header
Project(row, cols) == Fn_([c \in Range(cols) |-> row[c]])

InitChecks ==
  /\ \E d \in Tables(CheckRows, MaxCheckRows), h \in Headers :
       df = [cols |-> h,
             data |-> Seq_([p \in 1..Len(d) |-> Project(d[p], h)]),
             index |-> RangeIndex(Len(d))]
  /\ loaded = df
  /\ env \in Envs
  /\ ran = <<>>
  /\ exc = ""
  /\ caught = ""
  /\ pc = "lib"

Period == Call("period_check", period_check(df, env.start_date, env.end_date, env.today))

Completeness == Call("completeness_check", completeness_check(df))

ProgramCategory ==
  Call("program_category_check", program_category_check(env.fixture, df, env.today))

Duration == Call("duration_check", duration_check(df))

EventMatchday ==
  Call("check_event_matchday_competition", check_event_matchday_competition(df, env.fixture))

MarketChannel ==
  \E bsr_path \in BOOLEAN :
    Call("market_channel_consistency_check",
         market_channel_consistency_check(df, env.rosco, bsr_path, env.fixture))

DomesticMarket == Call("domestic_market_check", domestic_market_check(df))

RatesRatings == Call("rates_and_ratings_check", rates_and_ratings_check(df))

DuplicatedMarket == Call("duplicated_market_check", duplicated_market_check(df, env.macro))

CountryChannelId == Call("country_channel_id_check", country_channel_id_check(df))

ClientLstvOtt == Call("client_lstv_ott_check", client_lstv_ott_check(df))

NextChecks ==
  \/ Period
  \/ Completeness
  \/ ProgramCategory
  \/ Duration
  \/ EventMatchday
  \/ MarketChannel
  \/ DomesticMarket
  \/ RatesRatings
  \/ DuplicatedMarket
  \/ Overlap
  \/ CountryChannelId
  \/ ClientLstvOtt

SpecChecks == InitChecks /\ [][NextChecks]_vars

-----------------------------------------------------------------------------
(* The check sequence of run_qc, run MaxRuns times over: a run after the   *)
(* first starts from the table the run before it produced.  Each check is  *)
(* called with the arguments its definition takes.                         *)

MaxRuns == 2

\* the execution order of run_qc
Sequence ==
  <<"period_check", "completeness_check", "program_category_check",
    "check_event_matchday_competition", "market_channel_consistency_check",
    "domestic_market_check", "rates_and_ratings_check", "country_channel_id_check",
    "client_lstv_ott_check", "rates_and_ratings_check", "duplicated_market_check",
    "overlap_duplicate_daybreak_check">>

RunCheck(name, T, e, bsr_path) ==
  CASE name = "period_check" -> period_check(T, e.start_date, e.end_date, e.today)
    [] name = "completeness_check" -> completeness_check(T)
    [] name = "program_category_check" -> program_category_check(e.fixture, T, e.today)
    [] name = "check_event_matchday_competition" ->
         check_event_matchday_competition(T, e.fixture)
    [] name = "market_channel_consistency_check" ->
         market_channel_consistency_check(T, e.rosco, bsr_path, e.fixture)
    [] name = "domestic_market_check" -> domestic_market_check(T)
    [] name = "rates_and_ratings_check" -> rates_and_ratings_check(T)
    [] name = "country_channel_id_check" -> country_channel_id_check(T)
    [] name = "client_lstv_ott_check" -> client_lstv_ott_check(T)
    [] name = "duplicated_market_check" -> duplicated_market_check(T, e.macro)
    [] name = "overlap_duplicate_daybreak_check" -> overlap_duplicate_daybreak_check(T)

InitSequence ==
  /\ \E d \in Tables(CheckRows, MaxCheckRows), h \in Headers :
       df = [cols |-> h,
             data |-> Seq_([p \in 1..Len(d) |-> Project(d[p], h)]),
             index |-> RangeIndex(Len(d))]
  /\ loaded = df
  /\ env \in Envs
  /\ ran = <<>>
  /\ exc = ""
  /\ caught = ""
  /\ pc = "sequence"

\* df = check(df, ...) for the next check of the sequence
SequenceCall(name, r) ==
  /\ pc = "sequence"
  /\ exc = ""
  /\ Len(ran) < MaxRuns * Len(Sequence)
  /\ df' = r.df
  /\ exc' = r.exc
  /\ caught' = r.caught
  /\ ran' = Append(ran, name)
  /\ UNCHANGED <<loaded, env, pc>>

NextInSequence ==
  \E bsr_path \in BOOLEAN :
    SequenceCall(Sequence[(Len(ran) % Len(Sequence)) + 1],
                 RunCheck(Sequence[(Len(ran) % Len(Sequence)) + 1], df, env, bsr_path))

SpecSequence == InitSequence /\ [][NextInSequence]_vars

-----------------------------------------------------------------------------
(* The two checks of the fields of a row, completeness_check and           *)
(* rates_and_ratings_check, called on tables whose rows vary in the        *)
(* program type, the home team and the match day, or in the two audience   *)
(* cells.                                                                  *)

MaxFieldRows == 1

FieldRows ==
  {RowWith(("Type of program" :> t) @@ ("Home Team" :> h) @@ ("Matchday" :> m)) :
     t \in {S("Live"), S("Highlights"), S("Preview")},
     h \in {S("Real Madrid"), NaN},
     m \in {S("MD1"), S("-")}}
  \cup
  {RowWith(("Aud. Estimates ['000s]" :> e) @@ ("Aud Metered (000s) 3+" :> a)) :
     e \in {N(5), N(0), NaN, S("")},
     a \in {N(3), NaN, S("n/a")}}

FieldHeaders ==
  {SelectSeq2(FullHeader, Range(FullHeader) \ drop) :
     drop \in {{}, {"Source"}, {"Aud. Estimates ['000s]", "Aud Metered (000s) 3+"}}}

InitFields ==
  /\ \E d \in Tables(FieldRows, MaxFieldRows) \ {<<>>}, h \in FieldHeaders :
       df = [cols |-> h,
             data |-> Seq_([p \in 1..Len(d) |-> Project(d[p], h)]),
             index |-> RangeIndex(Len(d))]
  /\ loaded = df
  /\ env \in Config
  /\ ran = <<>>
  /\ exc = ""
  /\ caught = ""
  /\ pc = "lib"

NextFields ==
  \/ Completeness
  \/ RatesRatings

SpecFields == InitFields /\ [][NextFields]_vars

-----------------------------------------------------------------------------
(* _find_column(df, candidates) called on the header of a table.  In the   *)
(* specifications of the helpers df is, after the call, the value the      *)
(* helper returned; env holds the arguments of the call.  The candidates   *)
(* are a record [given, items]: given is FALSE for a list of None.         *)

MaxHeaders == 3

MaxCandidates == 2

HeaderNames == {"Market", "market ", "Channel", "TV-Channel"}

CandidateNames == {"MARKET", "channel", None}

\* c.lower().strip()
FindKey(s) == Strip(Lower(s))

\* the candidate itself where the header was to be returned
FindColumnCandidate(columns, candidates) ==
  LET is == {i \in 1..Len(candidates.items) :
               /\ candidates.items[i] # None
               /\ \E j \in 1..Len(columns) :
                    FindKey(columns[j]) = FindKey(candidates.items[i])}
  IN IF is = {} THEN Returns(None)
     ELSE Returns(candidates.items[CHOOSE i \in is : \A x \in is : i <= x])

\* lower_map keeps, of the columns with one key, the last; the candidates
\* are tried in their order; a candidate list of None cannot be iterated
find_column(columns, candidates) ==
  IF ~candidates.given THEN Result(None, "TypeError", "")
  ELSE LET hit(i) == {j \in 1..Len(columns) :
                        FindKey(columns[j]) = FindKey(candidates.items[i])}
           is == {i \in 1..Len(candidates.items) :
                    candidates.items[i] # None /\ hit(i) # {}}
           first == CHOOSE i \in is : \A x \in is : i <= x
       IN IF is = {} THEN Returns(None)
          ELSE Returns(columns[CHOOSE j \in hit(first) : \A x \in hit(first) : x <= j])

InitFind ==
  /\ \E h \in Tables(HeaderNames, MaxHeaders) :
       df = [cols |-> h, data |-> <<>>, index |-> <<>>]
  /\ loaded = df
  /\ \/ env = [candidates |-> [given |-> FALSE, items |-> <<>>]]
     \/ \E c \in Tables(CandidateNames, MaxCandidates) :
          env = [candidates |-> [given |-> TRUE, items |-> c]]
  /\ ran = <<>>
  /\ exc = ""
  /\ caught = ""
  /\ pc = "lib"

FindColumn ==
  /\ ran = <<>>
  /\ Call("_find_column", find_column(loaded.cols, env.candidates))

SpecFind == InitFind /\ [][FindColumn]_vars

-----------------------------------------------------------------------------
(* domestic_market_check alone, on loaded tables with and without the      *)
(* columns it needs                                                        *)

MaxDomesticRows == 2

InitDomestic ==
  /\ \E d \in Tables(CheckRows, MaxDomesticRows), h \in Headers :
       df = [cols |-> h,
             data |-> Seq_([p \in 1..Len(d) |-> Project(d[p], h)]),
             index |-> RangeIndex(Len(d))]
  /\ loaded = df
  /\ env \in Config
  /\ ran = <<>>
  /\ exc = ""
  /\ caught = ""
  /\ pc = "lib"

DomesticAlone == ran = <<>> /\ DomesticMarket

SpecDomestic == InitDomestic /\ [][DomesticAlone]_vars

-----------------------------------------------------------------------------
(* country_channel_id_check alone, on tables whose rows differ in market,  *)
(* market ID, channel and channel ID                                       *)

MaxIdRows == 3

IdRows ==
  {RowWith(("Market" :> S(m[1])) @@ ("Market ID" :> N(m[2]))
           @@ ("TV-Channel" :> S(c)) @@ ("Channel ID" :> N(i))) :
     m \in {<<"Spain", 1>>, <<"UK", 1>>, <<"Spain", 2>>}, c \in {"ESPN", "Sky"}, i \in {1, 2}}

InitIds ==
  /\ \E d \in Tables(IdRows, MaxIdRows) :
       df = [cols |-> FullHeader, data |-> d, index |-> RangeIndex(Len(d))]
  /\ loaded = df
  /\ env \in Config
  /\ ran = <<>>
  /\ exc = ""
  /\ caught = ""
  /\ pc = "lib"

CountryChannelIdAlone == ran = <<>> /\ CountryChannelId

SpecIds == InitIds /\ [][CountryChannelIdAlone]_vars

-----------------------------------------------------------------------------
(* client_lstv_ott_check alone, on loaded tables with and without the      *)
(* columns it reads                                                        *)

MaxClientRows == 2

InitClient ==
  /\ \E d \in Tables(CheckRows, MaxClientRows), h \in Headers :
       df = [cols |-> h,
             data |-> Seq_([p \in 1..Len(d) |-> Project(d[p], h)]),
             index |-> RangeIndex(Len(d))]
  /\ loaded = df
  /\ env \in Config
  /\ ran = <<>>
  /\ exc = ""
  /\ caught = ""
  /\ pc = "lib"

ClientAlone == ran = <<>> /\ ClientLstvOtt

SpecClient == InitClient /\ [][ClientAlone]_vars

-----------------------------------------------------------------------------
(* detect_period_from_rosco(rosco_path).  The first sheet of the Rosco     *)
(* workbook is a sequence of rows of cells, read as text.  A cell is a     *)
(* record [text, phrase, iso, alt]: phrase says that the text contains     *)
(* "monitoring period" in any case, iso lists the matches of               *)
(* \d{4}-\d{2}-\d{2} in the text and alt those of                          *)
(* \d{1,2}[/-]\d{1,2}[/-]\d{2,4}, in the order of the text.  No match      *)
(* spans two cells: the cells of a row are joined with a space.            *)

MaxDocItems == 3

DocCell(text, phrase, iso, alt) == [text |-> text, phrase |-> phrase, iso |-> iso, alt |-> alt]

DocCells ==
  {DocCell("Monitoring Period 2024-01-01 to 2024-01-31", TRUE,
           <<"2024-01-01", "2024-01-31">>, <<"24-01-01", "24-01-31">>),
   DocCell("monitoring periods", TRUE, <<>>, <<>>),
   DocCell("2024-02-01", FALSE, <<"2024-02-01">>, <<"24-02-01">>),
   DocCell("2024-03-01 00:00:00", FALSE, <<"2024-03-01">>, <<"24-03-01">>),
   DocCell("Ref 2024-13-45", FALSE, <<"2024-13-45">>, <<"24-13-45">>),
   DocCell("01/02/2024", FALSE, <<>>, <<"01/02/2024">>)}

\* the end of a row of the sheet
SheetRowEnd == DocCell("<row end>", FALSE, <<>>, <<>>)

\* the rows of a sheet given cell by cell
SheetRows(items) ==
  LET F[i \in 0..Len(items)] ==
        IF i = 0 THEN <<<<>>>>
        ELSE IF items[i] = SheetRowEnd THEN Append(F[i-1], <<>>)
        ELSE [F[i-1] EXCEPT ![Len(F[i-1])] = Append(@, items[i])]
  IN F[Len(items)]

\* the days of the texts that are dates, counted from 2024-01-01
IsoDay ==
  ("2024-01-01" :> 0) @@ ("2024-01-31" :> 30) @@ ("2024-02-01" :> 31) @@ ("2024-03-01" :> 60)

\* pd.to_datetime(text, format=DATE_FORMAT); NaT stands for the ValueError
\* of a text that is no date
ParseIso(text) == IF text \in DOMAIN IsoDay THEN IsoDay[text] * 1440 ELSE NaT

\* re.findall(pattern, text) of a row, for the pattern of the field kind
RowMatches(row, kind) == Flatten([i \in 1..Len(row) |-> row[i][kind]])

\* the first and the last match where the first two were to be taken
PeriodFirstLast(found) ==
  IF ParseIso(found[1]) = NaT \/ ParseIso(found[Len(found)]) = NaT
  THEN Result(None, "ValueError", "")
  ELSE Returns(<<TS(ParseIso(found[1])), TS(ParseIso(found[Len(found)]))>>)

\* start_date, end_date from found[0], found[1]
PeriodOf(found) ==
  IF ParseIso(found[1]) = NaT \/ ParseIso(found[2]) = NaT
  THEN Result(None, "ValueError", "")
  ELSE Returns(<<TS(ParseIso(found[1])), TS(ParseIso(found[2]))>>)

\* pd.to_datetime(text, dayfirst=False, errors="coerce") of a match of the
\* second pattern: month first for a text with slashes; of the other texts
\* (the tail of a yyyy-mm-dd) the parser makes a timestamp the model does
\* not compute, or NaT, as lenient says
ParseAlt(text, lenient) ==
  IF text = "01/02/2024" THEN TS(1440)
  ELSE IF lenient THEN [t |-> "ts", s |-> text, n |-> 0]
  ELSE NaTCell

\* the second pattern without the test that both timestamps are made
PeriodAltUnchecked(found_alt, lenient) ==
  IF Len(found_alt) >= 2
  THEN Returns(<<ParseAlt(found_alt[1], lenient), ParseAlt(found_alt[2], lenient)>>)
  ELSE Result(None, "ValueError", "")

\* the second pattern, tried on the matched row
PeriodAlt(found_alt, lenient) ==
  IF Len(found_alt) >= 2
     /\ ~IsNa(ParseAlt(found_alt[1], lenient)) /\ ~IsNa(ParseAlt(found_alt[2], lenient))
  THEN Returns(<<ParseAlt(found_alt[1], lenient), ParseAlt(found_alt[2], lenient)>>)
  ELSE Result(None, "ValueError", "")

detect_period_from_rosco(x, lenient) ==
  LET match_rows == {i \in 1..Len(x) : \E j \in 1..Len(x[i]) : x[i][j].phrase}
      all_found == Flatten([i \in 1..Len(x) |-> RowMatches(x[i], "iso")])
      text_row == x[CHOOSE i \in match_rows : \A k \in match_rows : i <= k]
  IN IF match_rows = {}
     THEN IF Len(all_found) >= 2 THEN PeriodOf(all_found)
          ELSE Result(None, "ValueError", "")
     ELSE IF Len(RowMatches(text_row, "iso")) >= 2 THEN PeriodOf(RowMatches(text_row, "iso"))
     ELSE PeriodAlt(RowMatches(text_row, "alt"), lenient)

InitPeriod ==
  /\ \E items \in Tables(DocCells \cup {SheetRowEnd}, MaxDocItems) :
       /\ Range(items) # {} /\ Range(items) # {SheetRowEnd}
       /\ env = [rosco |-> SheetRows(items)]
  /\ df = None
  /\ loaded = None
  /\ ran = <<>>
  /\ exc = ""
  /\ caught = ""
  /\ pc = "lib"

DetectPeriod ==
  /\ ran = <<>>
  /\ \E lenient \in BOOLEAN :
       Call("detect_period_from_rosco", detect_period_from_rosco(env.rosco, lenient))

SpecPeriod == InitPeriod /\ [][DetectPeriod]_vars

-----------------------------------------------------------------------------
(* detect_header_row(bsr_path).  The sheet is a number of title rows that  *)
(* hold none of the words looked for, followed by a few rows of which the  *)
(* text is given with those of the words "region", "market",               *)
(* "broadcaster", "date", "utc", "gmt" that its lower-cased text contains. *)

MaxSheetRows == 2

\* pd.read_excel(bsr_path, header=None, nrows=200)
nrows == 200

SheetRow(text, words) == [text |-> text, words |-> words]

SheetRowKinds ==
  {SheetRow("Broadcast Schedule Report", {}),
   SheetRow("Region Market Broadcaster", {"region", "market", "broadcaster"}),
   SheetRow("Market TV-Channel", {"market"}),
   SheetRow("Date (UTC/GMT) Start (UTC)", {"date", "utc", "gmt"}),
   SheetRow("Region Market", {"region", "market"}),
   SheetRow("Updated 10:00 UTC", {"date", "utc"})}

\* the numbers of title rows above the rows given
TitleRows == {0, nrows - 2, nrows - 1, nrows}

\* the two tests of the loop on row_str
IsHeaderRow(row) ==
  \/ {"region", "market", "broadcaster"} \subseteq row.words
  \/ "date" \in row.words /\ ({"utc", "gmt"} \cap row.words # {})

\* the index, from 0, of the first row of the sample that passes a test
detect_header_row(sheet) ==
  LET found == {k \in 1..Len(sheet.rows) :
                  sheet.titles + k <= nrows /\ IsHeaderRow(sheet.rows[k])}
  IN IF found = {} THEN Result(None, "ValueError", "")
     ELSE Returns(N(sheet.titles + (CHOOSE k \in found : \A x \in found : k <= x) - 1))

InitHeader ==
  /\ \E titles \in TitleRows, rows \in Tables(SheetRowKinds, MaxSheetRows) :
       env = [bsr |-> [titles |-> titles, rows |-> rows]]
  /\ df = None
  /\ loaded = None
  /\ ran = <<>>
  /\ exc = ""
  /\ caught = ""
  /\ pc = "lib"

DetectHeaderRow ==
  /\ ran = <<>>
  /\ Call("detect_header_row", detect_header_row(env.bsr))

SpecHeader == InitHeader /\ [][DetectHeaderRow]_vars

-----------------------------------------------------------------------------
(* The upload folder shared by the requests and the cleanup thread.  A     *)
(* request is one call of run_qc (app.py) or one run of the page           *)
(* (streamlit_app.py); pc[r] is its position.  A path is a record          *)
(* [name, n]: the uploaded file name with the counter save_uploaded_file   *)
(* appends (0 for none).  env.files maps the paths that exist to the       *)
(* request whose upload the file holds and the age of the file in units of *)
(* max_file_age_min; loaded[r] holds the names and paths of request r,     *)
(* df[r] the request whose Rosco file r has read (0 for none), caught[r]   *)
(* the exception its handler caught.                                       *)

MaxRequests == 2

MaxAge == 2

\* app_config.get("max_file_age_min", 30), in the unit of the ages
max_file_age == 1

Requests == 1..MaxRequests

RoscoNames == {"rosco.xlsx", "rosco_b.xlsx"}

Path(name, n) == [name |-> name, n |-> n]

NoPath == Path("", 0)

\* cleanup_old_files(folder_path, max_age_minutes)
cleanup_old_files(files) ==
  [f \in {g \in DOMAIN files : ~(files[g].age > max_file_age)} |-> files[f]]

\* file.save(path) and open(path, "wb").write(...): the file of the path is
\* created or replaced, with the time of the write
SaveFile(files, path, r) ==
  [f \in DOMAIN files \cup {path} |-> IF f = path THEN [owner |-> r, age |-> 0] ELSE files[f]]

\* the path save_uploaded_file settles on: the name, or the name with the
\* first counter from 1 for which no file exists
UniquePath(files, name) ==
  Path(name, CHOOSE n \in 0..MaxRequests :
               /\ Path(name, n) \notin DOMAIN files
               /\ \A k \in 0..(n-1) : Path(name, k) \in DOMAIN files)

InitUploads ==
  /\ \E app \in {"flask", "streamlit"} : env = [app |-> app, files |-> <<>>]
  /\ \E names \in [Requests -> RoscoNames] :
       loaded = [r \in Requests |->
                   [rosco_file |-> names[r], bsr_file |-> "bsr.xlsx",
                    rosco_path |-> NoPath, bsr_path |-> NoPath]]
  /\ df = [r \in Requests |-> 0]
  /\ caught = [r \in Requests |-> ""]
  /\ pc = [r \in Requests |-> "cleanup"]
  /\ ran = <<>>
  /\ exc = ""

\* cleanup_old_files(UPLOAD_FOLDER, ...) at the start of the run
RequestCleanup(r) ==
  /\ pc[r] = "cleanup"
  /\ env' = [env EXCEPT !.files = cleanup_old_files(env.files)]
  /\ pc' = [pc EXCEPT ![r] = "rosco_path"]
  /\ UNCHANGED <<df, loaded, ran, exc, caught>>

\* the path of an upload: os.path.join(UPLOAD_FOLDER, file.filename) in
\* app.py, the loop on os.path.exists of save_uploaded_file in
\* streamlit_app.py
ChoosePath(r, at, file, path, next) ==
  /\ pc[r] = at
  /\ loaded' = [loaded EXCEPT ![r][path] =
                  IF env.app = "flask" THEN Path(loaded[r][file], 0)
                  ELSE UniquePath(env.files, loaded[r][file])]
  /\ pc' = [pc EXCEPT ![r] = next]
  /\ UNCHANGED <<df, env, ran, exc, caught>>

\* the write of the upload to its path
WriteUpload(r, at, path, next) ==
  /\ pc[r] = at
  /\ env' = [env EXCEPT !.files = SaveFile(env.files, loaded[r][path], r)]
  /\ pc' = [pc EXCEPT ![r] = next]
  /\ UNCHANGED <<df, loaded, ran, exc, caught>>

RoscoPath(r) == ChoosePath(r, "rosco_path", "rosco_file", "rosco_path", "rosco_save")

RoscoSave(r) == WriteUpload(r, "rosco_save", "rosco_path", "bsr_path")

BsrPath(r) == ChoosePath(r, "bsr_path", "bsr_file", "bsr_path", "bsr_save")

BsrSave(r) == WriteUpload(r, "bsr_save", "bsr_path", "detect_period")

\* start_date, end_date = detect_period_from_rosco(rosco_path): the file
\* at the path is read; the handler of the run catches the exception of a
\* file that is not there
DetectPeriodOfRun(r) ==
  /\ pc[r] = "detect_period"
  /\ IF loaded[r].rosco_path \in DOMAIN env.files
     THEN /\ df' = [df EXCEPT ![r] = env.files[loaded[r].rosco_path].owner]
          /\ pc' = [pc EXCEPT ![r] = "load_bsr"]
          /\ UNCHANGED caught
     ELSE /\ caught' = [caught EXCEPT ![r] = "FileNotFoundError"]
          /\ pc' = [pc EXCEPT ![r] = "done"]
          /\ UNCHANGED df
  /\ UNCHANGED <<loaded, env, ran, exc>>

\* df = load_bsr(bsr_path, col_map["bsr"]): load_bsr takes one argument,
\* the call raises TypeError and the run ends in its handler
LoadBsrOfRun(r) ==
  /\ pc[r] = "load_bsr"
  /\ caught' = [caught EXCEPT ![r] = "TypeError"]
  /\ pc' = [pc EXCEPT ![r] = "done"]
  /\ UNCHANGED <<df, loaded, env, ran, exc>>

\* time passes: the files grow older, up to MaxAge
Tick ==
  /\ \E f \in DOMAIN env.files : env.files[f].age < MaxAge
  /\ env' = [env EXCEPT !.files =
               [f \in DOMAIN env.files |->
                  [env.files[f] EXCEPT !.age = IF @ < MaxAge THEN @ + 1 ELSE @]]]
  /\ UNCHANGED <<df, loaded, ran, exc, caught, pc>>

\* one round of loop_cleanup on the upload folder
BackgroundCleanup ==
  /\ cleanup_old_files(env.files) # env.files
  /\ env' = [env EXCEPT !.files = cleanup_old_files(env.files)]
  /\ UNCHANGED <<df, loaded, ran, exc, caught, pc>>

NextUploads ==
  \/ \E r \in Requests : RequestCleanup(r)
  \/ \E r \in Requests : RoscoPath(r)
  \/ \E r \in Requests : RoscoSave(r)
  \/ \E r \in Requests : BsrPath(r)
  \/ \E r \in Requests : BsrSave(r)
  \/ \E r \in Requests : DetectPeriodOfRun(r)
  \/ \E r \in Requests : LoadBsrOfRun(r)
  \/ Tick
  \/ BackgroundCleanup

SpecUploads == InitUploads /\ [][NextUploads]_vars

-----------------------------------------------------------------------------
(* Claims on the overlap / duplicate / daybreak check.  What a claim says  *)
(* about a row is computed from the row's own cells: its market, channel,  *)
(* date and the times of day of its start and end.                         *)

LastRan == IF ran = <<>> THEN "" ELSE ran[Len(ran)]

OverlapDone == LastRan = "overlap_duplicate_daybreak_check" /\ exc = ""

RowStart(r) == ParseHMS(Str(r["Start (UTC)"]))

RowEnd(r) == ParseHMS(Str(r["End (UTC)"]))

TimesValid(r) == RowStart(r) # NaT /\ RowEnd(r) # NaT

\* start and end timestamps: date and time of day combined
StartTs(r) == r["Date (UTC/GMT)"].n + RowStart(r)

EndTs(r) == r["Date (UTC/GMT)"].n + RowEnd(r)

IsOttRow(r) == r["Pay/Free TV"] = S("OTT")

SameGroup(r1, r2) ==
  /\ ~IsNa(r1["Market"]) /\ r1["Market"] = r2["Market"]
  /\ ~IsNa(r1["TV-Channel"]) /\ r1["TV-Channel"] = r2["TV-Channel"]

\* q comes before p in p's (market, channel) group sorted by start timestamp
GroupBefore(q, p) ==
  /\ q # p
  /\ SameGroup(df.data[q], df.data[p])
  /\ \/ StartTs(df.data[q]) < StartTs(df.data[p])
     \/ StartTs(df.data[q]) = StartTs(df.data[p]) /\ q < p

\* q is the row immediately preceding p in p's group
GroupPred(q, p) ==
  /\ GroupBefore(q, p)
  /\ \A x \in 1..NRows(df) : GroupBefore(x, p) /\ x # q => GroupBefore(x, q)

AllTimesValid == \A p \in 1..NRows(df) : TimesValid(df.data[p])

NoOttRow == \A p \in 1..NRows(df) : ~IsOttRow(df.data[p])

\* C7: within each (market, channel) group sorted by start timestamp, a row
\* has Overlap_OK = false exactly when it starts strictly before the end of
\* the row immediately preceding it in the group (stated for tables whose
\* times all parse and that hold no OTT row)
C7_OverlapWithinMarketChannel ==
  (OverlapDone /\ AllTimesValid /\ NoOttRow) =>
    \A p \in 1..NRows(df) :
      (df.data[p]["Overlap_OK"] = B(FALSE))
        <=> \E q \in 1..NRows(df) :
              GroupPred(q, p) /\ StartTs(df.data[p]) < EndTs(df.data[q])

\* C8: a row whose start or end time does not parse gets Overlap_OK = false
\* with remark "Invalid start or end time"
C8_InvalidTimeFails ==
  OverlapDone =>
    \A p \in 1..NRows(df) :
      ~TimesValid(df.data[p]) =>
        /\ df.data[p]["Overlap_OK"] = B(FALSE)
        /\ df.data[p]["Overlap_Remark"] = S("Invalid start or end time")

\* C9: Duplicate_OK = false exactly when another row of the table has the
\* same (market, channel, start, end) key (stated for a run with no
\* duplicated channel, where the exemption of duplicated channels is empty)
SameDupKey(r1, r2) ==
  /\ r1["Market"] = r2["Market"]
  /\ r1["TV-Channel"] = r2["TV-Channel"]
  /\ r1["Date (UTC/GMT)"] = r2["Date (UTC/GMT)"]
  /\ RowStart(r1) = RowStart(r2)
  /\ RowEnd(r1) = RowEnd(r2)

C9_DuplicateKeyHasMarket ==
  (OverlapDone /\ AllTimesValid) =>
    \A p \in 1..NRows(df) :
      (df.data[p]["Duplicate_OK"] = B(FALSE))
        <=> \E q \in 1..NRows(df) : q # p /\ SameDupKey(df.data[q], df.data[p])

\* C10: Daybreak_OK = false exactly when the gap between the end of the
\* preceding row of the (market, channel) group and the row's start exceeds
\* the configured daybreak_gap_tolerance_min
C10_DaybreakIffGapExceedsTolerance ==
  (OverlapDone /\ AllTimesValid) =>
    \A p \in 1..NRows(df) :
      (df.data[p]["Daybreak_OK"] = B(FALSE))
        <=> \E q \in 1..NRows(df) :
              /\ GroupPred(q, p)
              /\ StartTs(df.data[p]) - EndTs(df.data[q]) > env.daybreak_gap_tolerance_min

-----------------------------------------------------------------------------
(* Claims on the result columns the checks leave in the table.  Strings    *)
(* are atomic in the model, so the names that end in "_OK" and in          *)
(* "_Remark" are listed.                                                   *)

\* the names ending in "_OK"
OkColumns ==
  {"Within_Period_OK", "Completeness_OK", "Program_Category_OK", "Duration_OK",
   "Event_Matchday_OK", "Market_Channel_Consistency_OK", "Program_Description_OK",
   "Domestic Market Coverage Check_OK", "Rates_Ratings_QC_OK",
   "Duplicated Markets Check_OK", "Market_Channel_ID_OK", "Client_LSTV_OTT_OK",
   "Overlap_OK", "Duplicate_OK", "Daybreak_OK"}

\* the names ending in "_Remark"
RemarkColumns ==
  {"Within_Period_Remark", "Completeness_Remark", "Program_Category_Remark",
   "Duration_Remark", "Event_Matchday_Remark", "Market_Channel_Program_Remark",
   "Rates_Ratings_QC_Remark", "Market_Channel_ID_Remark", "Client_LSTV_OTT_Remark",
   "Overlap_Remark", "Duplicate_Remark", "Daybreak_Remark"}

OkValues == {B(TRUE), B(FALSE), S("Not Applicable"), S("Error")}

AddedColumns == Range(df.cols) \ Range(loaded.cols)

\* C1: after any sequence of checks has returned, every column that was
\* not in the loaded table is named <Check>_OK or <Check>_Remark, and every
\* cell of an _OK column is true, false, "Not Applicable" or "Error"
C1_ResultColumnsNamedOkOrRemark ==
  exc = "" =>
    \A c \in AddedColumns :
      /\ c \in OkColumns \cup RemarkColumns
      /\ c \in OkColumns => \A p \in 1..NRows(df) : df.data[p][c] \in OkValues

\* the _OK columns of each check
OkColumnsOf ==
  [period_check |-> {"Within_Period_OK"},
   completeness_check |-> {"Completeness_OK"},
   program_category_check |-> {"Program_Category_OK"},
   duration_check |-> {"Duration_OK"},
   check_event_matchday_competition |-> {"Event_Matchday_OK"},
   market_channel_consistency_check |-> {"Market_Channel_Consistency_OK",
                                         "Program_Description_OK"},
   domestic_market_check |-> {"Domestic Market Coverage Check_OK"},
   rates_and_ratings_check |-> {"Rates_Ratings_QC_OK"},
   duplicated_market_check |-> {"Duplicated Markets Check_OK"},
   overlap_duplicate_daybreak_check |-> {"Overlap_OK", "Duplicate_OK", "Daybreak_OK"},
   country_channel_id_check |-> {"Market_Channel_ID_OK"},
   client_lstv_ott_check |-> {"Client_LSTV_OTT_OK"}]

\* C3: an exception raised inside a check does not leave the check: the
\* check returns, with "Error" in its _OK column for the exception, so that
\* the checks after it can run
C3_ExceptionCaughtAtCheckBoundary ==
  ran # <<>> =>
    /\ exc = ""
    /\ caught # "" =>
         \A c \in OkColumnsOf[LastRan] :
           HasCol(df, c) /\ \E p \in 1..NRows(df) : df.data[p][c] = S("Error")

\* the check that ran last read a reference input that was missing: the
\* fixture sheet, or the macro file
ReferenceMissing ==
  \/ /\ LastRan \in {"program_category_check", "check_event_matchday_competition"}
     /\ ~env.fixture.present
  \/ /\ LastRan = "duplicated_market_check"
     /\ ~env.macro.given

\* C4: a check whose reference input is missing returns (the pipeline goes
\* on) and marks every row "Not Applicable" or failed, with a remark; it
\* marks no row as passed
C4_MissingReferenceNeverPasses ==
  ReferenceMissing =>
    /\ exc = ""
    /\ \A c \in OkColumnsOf[LastRan], p \in 1..NRows(df) :
         df.data[p][c] \in {B(FALSE), S("Not Applicable")}

\* the duplicated channel identifiers of a macro workbook: the duplicate
\* channels of the rule rows of the league
DuplicatedChannels(macro) ==
  IF macro.given /\ macro.sheet
  THEN {macro.data[q]["Dup Channel"] : q \in {x \in 1..Len(macro.data) :
          Has(Text(macro.data[x]["Projects"]), "f24 spain")}}
  ELSE {}

\* C6: when the duplicated-market check has run and the overlap check runs
\* after it, the rows whose channel is a duplicated channel are exempted
\* from overlap flagging and marked "Skipped (channel duplicated across
\* markets)"
C6_DuplicatedChannelsSkipped ==
  (ran = <<"duplicated_market_check", "overlap_duplicate_daybreak_check">> /\ exc = "") =>
    \A p \in 1..NRows(df) :
      df.data[p]["TV-Channel"] \in DuplicatedChannels(env.macro) =>
        /\ df.data[p]["Overlap_OK"] = B(TRUE)
        /\ df.data[p]["Overlap_Remark"] = S("Skipped (channel duplicated across markets)")

-----------------------------------------------------------------------------
(* Claims on the table a check returns *)

OverlapColumns ==
  {"Overlap_OK", "Overlap_Remark", "Duplicate_OK", "Duplicate_Remark",
   "Daybreak_OK", "Daybreak_Remark"}

\* the table the overlap check returns for the loaded rows under the
\* default row labels 0..n-1
OverlapOfRows ==
  overlap_duplicate_daybreak_check(
    [loaded EXCEPT !.index = RangeIndex(NRows(loaded))]).df

\* C2: the overlap check returns, for any row labels, a table with the rows
\* of its input in the same order and every column of the input unchanged,
\* and each row carries its own Overlap, Duplicate and Daybreak results
C2_OverlapWritesBackToSameRow ==
  ran = <<"overlap_duplicate_daybreak_check">> =>
    /\ exc = ""
    /\ NRows(df) = NRows(loaded)
    /\ df.index = loaded.index
    /\ \A p \in 1..NRows(df) :
         /\ \A c \in Range(loaded.cols) : df.data[p][c] = loaded.data[p][c]
         /\ \A c \in OverlapColumns : df.data[p][c] = OverlapOfRows.data[p][c]

-----------------------------------------------------------------------------
(* Claims on running the sequence again *)

\* the _OK and _Remark cells of a table, row by row
ResultCells(T) ==
  [p \in 1..NRows(T) |->
     [c \in Range(T.cols) \cap (OkColumns \cup RemarkColumns) |-> T.data[p][c]]]

\* C5: in a run of the sequence on the table a first run produced, no
\* check raises and every check leaves every _OK and _Remark cell as the
\* first run left it
C5_SecondRunSameResults ==
  [][Len(ran) >= Len(Sequence) =>
       /\ exc' = ""
       /\ ResultCells(df') = ResultCells(df)]_vars

-----------------------------------------------------------------------------
(* Claims on the duplicated-market check *)

DuplicatedMarketDone == ran = <<"duplicated_market_check">> /\ exc = "" /\ caught = ""

\* the row belongs to the selected league
InLeague(r) ==
  \/ Has(Text(Str(r["Competition"])), "f24 spain")
  \/ Has(Text(Str(r["Event"])), "f24 spain")

\* the rule rows of the macro for the selected league
LeagueRules ==
  {q \in 1..Len(env.macro.data) : Has(Text(env.macro.data[q]["Projects"]), "f24 spain")}

\* the distinct events the league's rows of the loaded table air on a
\* (market, channel)
EventsOn(market, channel) ==
  {loaded.data[p]["Event"] :
     p \in {x \in 1..NRows(loaded) :
              /\ InLeague(loaded.data[x])
              /\ loaded.data[x]["Market"] = market
              /\ loaded.data[x]["TV-Channel"] = channel}}

\* the events of the origin of rule q that its duplicate did not air
MissingEvents(q) ==
  EventsOn(env.macro.data[q]["Orig Market"], env.macro.data[q]["Orig Channel"])
    \ EventsOn(env.macro.data[q]["Dup Market"], env.macro.data[q]["Dup Channel"])

DuplicatedMarketFailed(r) == r["Duplicated Markets Check_OK"] \in {B(FALSE), S("FALSE")}

\* C11: for each rule row of the league the check passes iff every event
\* aired on the origin (market, channel) was aired on the duplicate: a rule
\* with missing events fails some row with the remark "Missing <n> events",
\* no row of the league fails when no rule has missing events, and a row
\* outside the league is "Not Applicable"
C11_DuplicatedMarketEventSubset ==
  (/\ DuplicatedMarketDone
   /\ env.macro.given /\ env.macro.sheet /\ LeagueRules # {}
   /\ {"Market", "TV-Channel", "Competition", "Event"} \subseteq Range(loaded.cols)) =>
    /\ \A q \in LeagueRules :
         MissingEvents(q) # {} =>
           \E p \in 1..NRows(df) :
             /\ DuplicatedMarketFailed(df.data[p])
             /\ df.data[p]["Duplicated Markets Remark"] =
                  S("Missing " \o ToString(Cardinality(MissingEvents(q))) \o " events")
    /\ (\A q \in LeagueRules : MissingEvents(q) = {}) =>
         \A p \in 1..NRows(df) : InLeague(loaded.data[p]) => ~DuplicatedMarketFailed(df.data[p])
    /\ \A p \in 1..NRows(df) :
         ~InLeague(loaded.data[p]) => df.data[p]["Duplicated Markets Check_OK"] = S("Not Applicable")

-----------------------------------------------------------------------------
(* Claims on the program-category check *)

ProgramCategoryDone == ran = <<"program_category_check">> /\ exc = ""

\* the loaded table and the fixture sheet have the columns the claims speak of
ProgramCategoryInputs ==
  /\ env.fixture.present
  /\ {"Home Team", "Away Team", "Start"} \subseteq Range(env.fixture.cols)
  /\ {"Home Team", "Away Team", "Type of program", "Date (UTC/GMT)", "Start (UTC)"}
       \subseteq Range(loaded.cols)

NormText(c) == Lower(Strip(Text(Str(c))))

FullMatchType(r) == NormText(r["Type of program"]) \in {"live", "repeat", "delayed"}

\* row r of the table is a broadcast of fixture row f: both teams equal and
\* the same calendar date
MatchesFixture(r, f) ==
  /\ NormText(r["Home Team"]) = NormText(f["Home Team"])
  /\ NormText(r["Away Team"]) = NormText(f["Away Team"])
  /\ r["Date (UTC/GMT)"].t = "ts" /\ f["Start"].t = "ts"
  /\ Day(r["Date (UTC/GMT)"].n) = Day(f["Start"].n)

\* the full-match rows of the loaded table matched to fixture row q whose
\* start time can be read
BroadcastsOf(q) ==
  {p \in 1..NRows(loaded) :
     /\ FullMatchType(loaded.data[p])
     /\ MatchesFixture(loaded.data[p], env.fixture.data[q])
     /\ ParseHMS(loaded.data[p]["Start (UTC)"]) # NaT}

BroadcastStart(p) == ParseHMS(loaded.data[p]["Start (UTC)"])

\* C12: of the full-match rows matched to a fixture, the one that starts
\* before all the others is expected to be "live" or "delayed", every row
\* that starts after another one is expected to be "repeat"; the row passes
\* iff the declared type is the expected one, and a mismatch has the remark
\* "Expected '<expected>', found '<actual>'"
C12_EarliestLiveOrDelayedLaterRepeat ==
  (ProgramCategoryDone /\ ProgramCategoryInputs) =>
    \A q \in 1..Len(env.fixture.data) : \A p \in BroadcastsOf(q) :
      LET expected == df.data[p]["Program_Category_Expected"]
          actual == NormText(loaded.data[p]["Type of program"])
      IN /\ (\A x \in BroadcastsOf(q) \ {p} : BroadcastStart(p) < BroadcastStart(x))
              => expected \in {S("live"), S("delayed")}
         /\ (\E x \in BroadcastsOf(q) : BroadcastStart(x) < BroadcastStart(p))
              => expected = S("repeat")
         /\ df.data[p]["Program_Category_OK"] = B(expected = S(actual))
         /\ expected # S(actual) =>
              df.data[p]["Program_Category_Remark"] =
                S("Expected '" \o expected.s \o "', found '" \o actual \o "'")

\* row r names both teams of fixture row f
SameTeams(r, f) ==
  /\ NormText(r["Home Team"]) = NormText(f["Home Team"])
  /\ NormText(r["Away Team"]) = NormText(f["Away Team"])

\* C13: a full-match row whose two teams are those of no fixture row (so
\* that no fixture matches it in both teams and the calendar date) fails
\* with the remark "No matching fixture found"; it is not classified
\* against a fixture that shares one of its teams
C13_FixtureMatchNeedsBothTeamsAndDate ==
  (ProgramCategoryDone /\ ProgramCategoryInputs) =>
    \A p \in 1..NRows(df) :
      (/\ FullMatchType(loaded.data[p])
       /\ \A q \in 1..Len(env.fixture.data) :
            ~SameTeams(loaded.data[p], env.fixture.data[q])) =>
        /\ df.data[p]["Program_Category_OK"] = B(FALSE)
        /\ df.data[p]["Program_Category_Remark"] = S("No matching fixture found")

-----------------------------------------------------------------------------
(* Claims on the completeness check *)

CompletenessDone == ran = <<"completeness_check">> /\ exc = ""

\* the cell holds a value: not blank after trimming, not a missing value
\* and not one of the tokens that stand for one; a number, zero included,
\* is present
Present(c) ==
  /\ ~IsNa(c)
  /\ c # S(None)
  /\ c.t = "str" => Lower(Strip(Text(c))) \notin {"", "nan", "none", "null", "n/a", "-"}

\* the number of the two audience fields of a loaded row that are present;
\* a field the table has no column for is absent
AudiencePresent(r) ==
  Cardinality({c \in {"Aud. Estimates ['000s]", "Aud Metered (000s) 3+"} \cap DOMAIN r :
                 Present(r[c])})

\* the mandatory fields of a loaded row are all present
MandatoryPresent(r) ==
  \A c \in {"TV-Channel", "Channel ID", "Matchday", "Source"} : Present(r[c])

TeamsPresent(r) == Present(r["Home Team"]) /\ Present(r["Away Team"])

\* C14: a row fails when both audience fields are present and when both are
\* empty, and a row whose mandatory fields and teams are present passes iff
\* exactly one audience field is present
C14_ExactlyOneAudienceField ==
  (CompletenessDone /\ loaded.cols = FullHeader) =>
    \A p \in 1..NRows(df) :
      /\ AudiencePresent(loaded.data[p]) # 1 => df.data[p]["Completeness_OK"] = B(FALSE)
      /\ (MandatoryPresent(loaded.data[p]) /\ TeamsPresent(loaded.data[p])) =>
           df.data[p]["Completeness_OK"] = B(AudiencePresent(loaded.data[p]) = 1)

\* C15: a row of a full-match type (live, repeat, delayed) with an absent
\* home or away team fails; a row of any other type whose mandatory fields
\* are present and which has one audience field passes, whether its home
\* and away teams are present or not
C15_TeamsDemandedOnlyForFullMatch ==
  (CompletenessDone /\ loaded.cols = FullHeader) =>
    \A p \in 1..NRows(df) :
      /\ (FullMatchType(loaded.data[p]) /\ ~TeamsPresent(loaded.data[p])) =>
           df.data[p]["Completeness_OK"] = B(FALSE)
      /\ (/\ ~FullMatchType(loaded.data[p])
          /\ MandatoryPresent(loaded.data[p])
          /\ AudiencePresent(loaded.data[p]) = 1) =>
           df.data[p]["Completeness_OK"] = B(TRUE)

\* the completeness rules a loaded row violates, by the fields the loaded
\* table has: the mandatory fields, the audience rule, the teams of a
\* full-match row
ViolatedRules(r) ==
  {c \in {"TV-Channel", "Channel ID", "Matchday", "Source", "Type of program"} :
     c \notin DOMAIN r \/ ~Present(r[c])}
  \cup (IF AudiencePresent(r) = 1 THEN {} ELSE {"Audience"})
  \cup (IF "Type of program" \in DOMAIN r /\ FullMatchType(r)
        THEN {c \in {"Home Team", "Away Team"} : ~Present(r[c])}
        ELSE {})

\* C16: for a row of a listed program type that has at most one audience
\* field, Completeness_OK is false iff the row violates a rule; a mandatory
\* field whose column is missing makes the row fail, with the remark
\* "<Field> (column not found)" when it is the only rule violated; a cell
\* holding "-" or "n/a" counts as absent and a numeric zero as present
C16_CompletenessListsEveryViolatedRule ==
  CompletenessDone =>
    \A p \in {x \in 1..NRows(df) :
                /\ NormText(loaded.data[x]["Type of program"])
                     \in live_types \cup relaxed_types
                /\ AudiencePresent(loaded.data[x]) <= 1} :
      /\ df.data[p]["Completeness_OK"] = B(ViolatedRules(loaded.data[p]) = {})
      /\ (ViolatedRules(loaded.data[p]) = {"Source"} /\ ~HasCol(loaded, "Source")) =>
           df.data[p]["Completeness_Remark"] = S("Source (column not found)")

-----------------------------------------------------------------------------
(* Claims on the rates and ratings check *)

RatesDone == LastRan = "rates_and_ratings_check" /\ exc = ""

\* the audience cell holds a rating: a number, zero included, or a text
\* that is not blank and not a token that stands for no value
RatingPresent(c) ==
  /\ ~IsNa(c)
  /\ c.t = "str" => Lower(Strip(Text(c))) \notin {"", "nan", "none", "na", "n/a"}

\* the number of the two audience cells of a row that hold a rating; a
\* column the table does not have counts as empty
RatingsPresent(r) ==
  Cardinality({c \in {"Aud. Estimates ['000s]", "Aud Metered (000s) 3+"} \cap DOMAIN r :
                 RatingPresent(r[c])})

-----------------------------------------------------------------------------
(* Claims on the column resolver *)

FindDone == ran = <<"_find_column">>

\* the lower-cased, trimmed form of a name
Normalized(s) == Strip(Lower(s))

\* the normalized forms of the candidates
CandidateForms == {Normalized(c) : c \in Range(env.candidates.items) \ {None}}

\* C18: the resolver returns None or a header of the table whose
\* normalized form is that of a candidate; it returns nothing else
C18_ResolverReturnsHeaderOrNone ==
  (FindDone /\ exc = "") =>
    \/ df = None
    \/ /\ df \in Range(loaded.cols)
       /\ Normalized(df) \in CandidateForms

\* the resolver has returned a header that differs from the candidate in
\* case and in the space at its end
C18_ReturnedHeaderOfOtherCase ==
  /\ FindDone
  /\ exc = ""
  /\ env.candidates.items = <<"MARKET">>
  /\ df = "market "

\* C19: the resolver returns the first header, in the order of the header,
\* whose normalized form is that of a candidate, None when there is none,
\* and raises nothing, also for a candidate list that is empty or missing
C19_ResolverReturnsFirstHeaderInOrder ==
  FindDone =>
    LET hits == {j \in 1..Len(loaded.cols) : Normalized(loaded.cols[j]) \in CandidateForms}
    IN /\ exc = ""
       /\ hits = {} => df = None
       /\ hits # {} => df = loaded.cols[CHOOSE j \in hits : \A x \in hits : j <= x]

-----------------------------------------------------------------------------
(* Claims on the monitoring period of the Rosco document *)

PeriodDone == ran = <<"detect_period_from_rosco">>

\* the rows of the document that contain the phrase, in any case
PhraseRows == {i \in 1..Len(env.rosco) : \E j \in 1..Len(env.rosco[i]) : env.rosco[i][j].phrase}

\* the first row that contains the phrase
FirstPhraseRow == env.rosco[CHOOSE i \in PhraseRows : \A k \in PhraseRows : i <= k]

\* the texts of the form dddd-dd-dd of a row, cells left to right
IsoTexts(row) == Flatten([j \in 1..Len(row) |-> row[j].iso])

\* the texts of the form dddd-dd-dd of the document, rows top to bottom
DocumentIsoTexts == Flatten([i \in 1..Len(env.rosco) |-> IsoTexts(env.rosco[i])])

\* those of the texts that are dates of the calendar
DatesAmong(texts) == SelectSeq2(texts, DOMAIN IsoDay)

\* the call has returned the two dates as (start, end)
ReturnedPeriod(start, end) ==
  /\ exc = ""
  /\ df = <<TS(IsoDay[start] * 1440), TS(IsoDay[end] * 1440)>>

\* the first two of the texts decide the outcome: returned when both are
\* dates, ValueError when one is not
FirstTwoDecide(texts) ==
  IF texts[1] \in DOMAIN IsoDay /\ texts[2] \in DOMAIN IsoDay
  THEN ReturnedPeriod(texts[1], texts[2])
  ELSE exc = "ValueError"

\* C20 (as amended): when some row contains "Monitoring Period" in any case
\* and the first such row holds at least two texts of the form dddd-dd-dd,
\* the first two of them are returned as (start, end) when both are dates of
\* the calendar, and ValueError is raised when one is not; when no row
\* contains the phrase and the document holds at least two such texts, the
\* same is done with the first two in document order
C20_FirstTwoIsoTextsReturnedWhenDates ==
  PeriodDone =>
    /\ (PhraseRows # {} /\ Len(IsoTexts(FirstPhraseRow)) >= 2)
         => FirstTwoDecide(IsoTexts(FirstPhraseRow))
    /\ (PhraseRows = {} /\ Len(DocumentIsoTexts) >= 2)
         => FirstTwoDecide(DocumentIsoTexts)

\* the period was taken from the row with the phrase, below a row that holds
\* another date
C20_PeriodOfPhraseRowBelowDateRow ==
  /\ PeriodDone
  /\ Len(env.rosco) = 2
  /\ PhraseRows = {2}
  /\ IsoTexts(env.rosco[1]) = <<"2024-02-01">>
  /\ ReturnedPeriod("2024-01-01", "2024-01-31")

\* C20 (as stated): the first two ISO dates of the first row with the
\* phrase are returned, and without such a row the first two ISO dates of
\* the document, whenever there are two
C20_FirstTwoIsoDatesReturned ==
  PeriodDone =>
    /\ (PhraseRows # {} /\ Len(DatesAmong(IsoTexts(FirstPhraseRow))) >= 2)
         => ReturnedPeriod(DatesAmong(IsoTexts(FirstPhraseRow))[1],
                           DatesAmong(IsoTexts(FirstPhraseRow))[2])
    /\ (PhraseRows = {} /\ Len(DatesAmong(DocumentIsoTexts)) >= 2)
         => ReturnedPeriod(DatesAmong(DocumentIsoTexts)[1], DatesAmong(DocumentIsoTexts)[2])

\* the texts of a row that the second pattern matches, cells left to right
AltTexts(row) == Flatten([j \in 1..Len(row) |-> row[j].alt])

\* the texts with slashes that are dates
SlashDates == {"01/02/2024"}

\* the call has returned a pair of timestamps, none of them NaT
ReturnedPair ==
  /\ exc = ""
  /\ df # None
  /\ Len(df) = 2
  /\ \A k \in 1..2 : df[k].t = "ts"

\* C21 (as amended): the call either raises and returns nothing or returns
\* a pair of timestamps without NaT.  With a row that contains the phrase
\* it raises when that row holds fewer than two texts of either pattern,
\* and when it holds two of the form dddd-dd-dd of which one of the first
\* two is no date; it returns when the first two of the form dddd-dd-dd are
\* dates, and when there are fewer than two of them and the first two texts
\* of the second pattern are dates with slashes.  Without such a row it
\* raises when the document holds fewer than two texts of the form
\* dddd-dd-dd or one of the first two is no date, and returns otherwise
C21_RaisesWithoutTwoReadableDates ==
  PeriodDone =>
    /\ (exc = "ValueError" /\ df = None) \/ ReturnedPair
    /\ PhraseRows # {} =>
         LET iso == IsoTexts(FirstPhraseRow)
             alt == AltTexts(FirstPhraseRow)
         IN /\ Len(iso) >= 2 =>
                 (exc # "" <=> (iso[1] \notin DOMAIN IsoDay \/ iso[2] \notin DOMAIN IsoDay))
            /\ (Len(iso) < 2 /\ Len(alt) < 2) => exc # ""
            /\ (Len(iso) < 2 /\ Len(alt) >= 2 /\ alt[1] \in SlashDates /\ alt[2] \in SlashDates)
                 => exc = ""
    /\ PhraseRows = {} =>
         LET iso == DocumentIsoTexts
         IN /\ Len(iso) < 2 => exc # ""
            /\ Len(iso) >= 2 =>
                 (exc # "" <=> (iso[1] \notin DOMAIN IsoDay \/ iso[2] \notin DOMAIN IsoDay))

\* the call has raised for a row with the phrase and one date with slashes
C21_RaisedForPhraseRowWithOneDate ==
  /\ PeriodDone
  /\ PhraseRows # {}
  /\ IsoTexts(FirstPhraseRow) = <<>>
  /\ AltTexts(FirstPhraseRow) = <<"01/02/2024">>
  /\ exc = "ValueError"
  /\ df = None

\* no pair of interpretable dates is found by any step
NoDatePair ==
  IF PhraseRows # {}
  THEN /\ Len(DatesAmong(IsoTexts(FirstPhraseRow))) < 2
       /\ Len(SelectSeq2(AltTexts(FirstPhraseRow), SlashDates)) < 2
  ELSE Len(DatesAmong(DocumentIsoTexts)) < 2

\* C21 (as stated): the call ends with an error, returning no period,
\* exactly when no step finds two interpretable dates
C21_ErrorIffNoDatePair ==
  PeriodDone =>
    /\ exc # "" <=> NoDatePair
    /\ exc # "" => df = None

-----------------------------------------------------------------------------
(* Claims on the header row of the table *)

HeaderDone == ran = <<"detect_header_row">>

\* the words the loader looks for
AnchorTokens == {"region", "market", "broadcaster", "date", "utc", "gmt"}

\* the rows given, by their place from 1, that lie among the first 200
\* rows of the sheet and contain at least two of the words
QualifyingRows ==
  {k \in 1..Len(env.bsr.rows) :
     /\ env.bsr.titles + k <= 200
     /\ Cardinality(env.bsr.rows[k].words \cap AnchorTokens) >= 2}

\* C22: the header is the first row, among the first 200 rows, whose
\* lower-cased text contains at least two of the anchor words; the loader
\* fails when no row of that window has two, and never uses a row beyond
\* the window
C22_HeaderIsFirstRowWithTwoAnchors ==
  HeaderDone =>
    IF QualifyingRows = {} THEN exc # ""
    ELSE /\ exc = ""
         /\ df = N(env.bsr.titles + (CHOOSE k \in QualifyingRows : \A x \in QualifyingRows : k <= x) - 1)

-----------------------------------------------------------------------------
(* Claims on the event / matchday / fixture check *)

EventMatchdayDone == ran = <<"check_event_matchday_competition">> /\ exc = ""

\* the fields of a loaded row, among event, home, away and matchday, that
\* are missing: no such column, a missing value or a blank text
MissingFixtureFields(r) ==
  {c \in {"Event", "Home Team", "Away Team", "Matchday"} :
     c \notin DOMAIN r \/ IsNa(r[c]) \/ Strip(Text(r[c])) = ""}

\* the trimmed, lower-cased tuple of the row is in the fixture list
InFixtureList(r) ==
  \E q \in 1..Len(env.fixture.data) :
    \A c \in {"Event", "Home Team", "Away Team", "Matchday"} :
      LET fc == IF c = "Event" /\ ~HasCol(env.fixture, "Event") THEN "Competition" ELSE c
      IN /\ HasCol(env.fixture, fc)
         /\ NormText(env.fixture.data[q][fc]) = NormText(r[c])

\* C23: a row whose type is not a full-match type is marked "Not
\* Applicable"; a full-match row with a missing event, home, away or
\* matchday fails with the missing-field remark, one with the four present
\* and no such fixture fails with "No matching fixture found", and any
\* other full-match row passes
C23_EventMatchdayByTypeAndFixture ==
  (EventMatchdayDone /\ env.fixture.present) =>
    \A p \in 1..NRows(df) :
      LET r == loaded.data[p]
          ok == df.data[p]["Event_Matchday_OK"]
          remark == df.data[p]["Event_Matchday_Remark"]
      IN IF ~FullMatchType(r) THEN remark = S("Not Applicable")
         ELSE IF MissingFixtureFields(r) # {}
         THEN ok = B(FALSE) /\ remark = S("Missing event/home/away/matchday")
         ELSE IF ~InFixtureList(r)
         THEN ok = B(FALSE) /\ remark = S("No matching fixture found")
         ELSE ok = B(TRUE)

-----------------------------------------------------------------------------
(* Claims on the market / channel consistency check *)

MarketChannelDone == ran = <<"market_channel_consistency_check">> /\ exc = ""

\* the cell of the column of a loaded row holds a value
FieldGiven(r, c) == c \in DOMAIN r /\ ~IsNa(r[c]) /\ Strip(Text(r[c])) # ""

\* the pair of the row, market lower-cased and channel normalized as the
\* roster's channel names are, is among the valid pairs of the roster
PairOfRosterValid(r) ==
  <<Lower(Strip(Text(r["Market"]))), normalize_channel(r["TV-Channel"])>> \in valid_pairs(env.rosco)

\* C24: a row passes iff its market and channel are present and its pair is
\* among the valid pairs built from the roster; a row with a missing market
\* or channel fails whatever the valid pairs are; the market and channel
\* cells of the table are left as they were
C24_MarketChannelPassIffValidPair ==
  MarketChannelDone =>
    /\ HasCol(df, "Market_Channel_Consistency_OK")
    /\ \A p \in 1..NRows(df) :
         /\ df.data[p]["Market_Channel_Consistency_OK"] =
              B(/\ FieldGiven(loaded.data[p], "Market")
                /\ FieldGiven(loaded.data[p], "TV-Channel")
                /\ PairOfRosterValid(loaded.data[p]))
         /\ df.data[p]["Market"] = loaded.data[p]["Market"]
         /\ df.data[p]["TV-Channel"] = loaded.data[p]["TV-Channel"]

-----------------------------------------------------------------------------
(* Claims on the domestic market coverage check *)

DomesticDone == ran = <<"domestic_market_check">> /\ exc = ""

\* the table has the columns the check needs
DomesticColumns ==
  {"Market", "Competition", "Event", "Type of program", "Matchday"} \subseteq Range(loaded.cols)

InDomesticMarket(r) == Has(Text(r["Market"]), "spain")

InDomesticLeague(r) ==
  \/ ValSubs(Lower(Text(r["Competition"]))) \cap league_keywords # {}
  \/ ValSubs(Lower(Text(r["Event"]))) \cap league_keywords # {}

InDomesticScope(r) == InDomesticMarket(r) /\ InDomesticLeague(r)

HighlightsOrMagazine(r) ==
  Has(Text(r["Type of program"]), "highlight") \/ Has(Text(r["Type of program"]), "magazine")

\* some row of the matchday of r, in the domestic market and league, has a
\* type that contains "Live" or "Delayed"
MatchdayCovered(r) ==
  \E q \in 1..NRows(loaded) :
    /\ InDomesticScope(loaded.data[q])
    /\ StrStrip(loaded.data[q]["Matchday"]) = StrStrip(r["Matchday"])
    /\ \/ Has(Text(loaded.data[q]["Type of program"]), "live")
       \/ Has(Text(loaded.data[q]["Type of program"]), "delayed")

DomesticOK(p) == df.data[p]["Domestic Market Coverage Check_OK"]

-----------------------------------------------------------------------------
(* Claims on the channel / market ID check *)

IdsDone == ran = <<"country_channel_id_check">> /\ exc = ""

\* the ID of the first of the rows 1..p that bear the name in the name
\* column: the ID recorded for the name, which is never replaced
FirstId(name_col, id_col, name, p) ==
  LET rows == {q \in 1..p : NormId(loaded.data[q][name_col]) = name}
  IN NormId(loaded.data[CHOOSE q \in rows : \A x \in rows : q <= x][id_col])

\* the ID of row p differs from the one first recorded for its name
DiffersFromFirst(name_col, id_col, p) ==
  /\ NormId(loaded.data[p][name_col]) # ""
  /\ NormId(loaded.data[p][id_col]) # FirstId(name_col, id_col, NormId(loaded.data[p][name_col]), p)

\* the ID of row p is the one recorded for more than one of the names of
\* the rows 1..p
SharedByNames(name_col, id_col, p) ==
  /\ NormId(loaded.data[p][id_col]) # ""
  /\ Cardinality({name \in {NormId(loaded.data[q][name_col]) : q \in 1..p} \ {""} :
                    FirstId(name_col, id_col, name, p) = NormId(loaded.data[p][id_col])}) > 1

\* C26 (as amended): a row is marked failed exactly when its channel ID
\* differs from the ID of the first row of its channel name, or its market
\* ID from the ID of the first row of its market name, or its channel ID is
\* by then the recorded ID of more than one channel name, or its market ID
\* that of more than one market name
C26_FailsOnFirstIdOrSharedId ==
  IdsDone =>
    \A p \in 1..NRows(df) :
      df.data[p]["Market_Channel_ID_OK"] =
        B(~(\/ DiffersFromFirst("TV-Channel", "Channel ID", p)
            \/ DiffersFromFirst("Market", "Market ID", p)
            \/ SharedByNames("TV-Channel", "Channel ID", p)
            \/ SharedByNames("Market", "Market ID", p)))

\* the third row of a channel fails against the ID of the first row, the
\* second row having borne another ID
C26_ThirdRowFailsAgainstFirstId ==
  /\ IdsDone
  /\ NRows(df) = 3
  /\ \A p \in 1..3 : loaded.data[p]["TV-Channel"] = S("ESPN") /\ loaded.data[p]["Market ID"] = N(1)
                     /\ loaded.data[p]["Market"] = S("Spain")
  /\ loaded.data[1]["Channel ID"] = N(1)
  /\ loaded.data[2]["Channel ID"] = N(2)
  /\ loaded.data[3]["Channel ID"] = N(2)
  /\ df.data[1]["Market_Channel_ID_OK"] = B(TRUE)
  /\ df.data[3]["Market_Channel_ID_OK"] = B(FALSE)

\* C26 (as stated): a row is marked failed exactly when its channel ID
\* differs from the ID first recorded for its channel name or its market
\* ID from the ID first recorded for its market name
C26_FailsExactlyOnFirstId ==
  IdsDone =>
    \A p \in 1..NRows(df) :
      df.data[p]["Market_Channel_ID_OK"] =
        B(~(\/ DiffersFromFirst("TV-Channel", "Channel ID", p)
            \/ DiffersFromFirst("Market", "Market ID", p)))

-----------------------------------------------------------------------------
(* Claims on the client / LSTV / OTT check *)

ClientDone == ran = <<"client_lstv_ott_check">> /\ exc = ""

\* the table has the three columns the check reads
ClientColumns == {"Market ID", "Channel ID", "Pay/Free TV"} \subseteq Range(loaded.cols)

\* the ID of row p in the column of is linked, in the table, to more than
\* one ID of the column to
LinkedToMany(of, to, p) ==
  /\ ~IsNa(loaded.data[p][of])
  /\ Cardinality({c \in {loaded.data[q][to] :
                           q \in {x \in 1..NRows(loaded) : loaded.data[x][of] = loaded.data[p][of]}} :
                    ~IsNa(c)}) > 1

\* the descriptor of row p contains none of the keywords
NoSourceKeyword(p) ==
  \A k \in {"client", "lstv", "ott"} : ~Has(Text(loaded.data[p]["Pay/Free TV"]), k)

\* the findings on row p, in the order the check makes them
ClientFindings(p) ==
  (IF LinkedToMany("Channel ID", "Market ID", p)
   THEN <<"Channel assigned to multiple Market IDs">> ELSE <<>>)
  \o (IF LinkedToMany("Market ID", "Channel ID", p)
      THEN <<"Market ID assigned to multiple Channel IDs">> ELSE <<>>)
  \o (IF NoSourceKeyword(p)
      THEN <<"Missing required source (Client/LSTV/OTT): " \o Text(loaded.data[p]["Pay/Free TV"])>>
      ELSE <<>>)

-----------------------------------------------------------------------------
(* Claims on the period check *)

PeriodCheckDone == ran = <<"period_check">> /\ exc = ""

\* the date of a loaded row parses and lies in the closed interval of the
\* monitoring period; a row without a date has none that parses
DateWithinPeriod(r) ==
  /\ "Date (UTC/GMT)" \in DOMAIN r
  /\ ToDatetime(r["Date (UTC/GMT)"], env.today) # NaT
  /\ Day(env.start_date) <= Day(ToDatetime(r["Date (UTC/GMT)"], env.today))
  /\ Day(ToDatetime(r["Date (UTC/GMT)"], env.today)) <= Day(env.end_date)

\* C28: Within_Period_OK is true for a row iff its date parses and lies in
\* the closed interval [start date, end date]; a row whose date is missing
\* or does not parse is failed with "Date outside monitoring period"
C28_WithinPeriodIffDateInClosedInterval ==
  PeriodCheckDone =>
    \A p \in 1..NRows(df) :
      /\ df.data[p]["Within_Period_OK"] = B(DateWithinPeriod(loaded.data[p]))
      /\ ~DateWithinPeriod(loaded.data[p]) =>
           df.data[p]["Within_Period_Remark"] = S("Date outside monitoring period")

-----------------------------------------------------------------------------
(* Claims on the independence of the checks *)

\* the checks that rewrite cells of the table and add helper columns
RewritingChecks == {"program_category_check", "duration_check", "domestic_market_check"}

\* the _OK and _Remark columns of the three checks compared
VerdictColumnsOf ==
  [overlap_duplicate_daybreak_check |->
     {"Overlap_OK", "Overlap_Remark", "Duplicate_OK", "Duplicate_Remark",
      "Daybreak_OK", "Daybreak_Remark"},
   duration_check |-> {"Duration_OK", "Duration_Remark"},
   completeness_check |-> {"Completeness_OK", "Completeness_Remark"}]

\* a rewriting check has run on the loaded table and one of the three
\* checks after it
RanAfterRewriting ==
  /\ Len(ran) = 2
  /\ ran[1] \in RewritingChecks
  /\ ran[2] \in DOMAIN VerdictColumnsOf
  /\ ran[1] # ran[2]

\* the check ran[2] called on the freshly loaded table
OnFreshTable ==
  CASE ran[2] = "overlap_duplicate_daybreak_check" -> overlap_duplicate_daybreak_check(loaded)
    [] ran[2] = "duration_check" -> duration_check(loaded)
    [] ran[2] = "completeness_check" -> completeness_check(loaded)

\* C29: overlap_duplicate_daybreak_check, duration_check and
\* completeness_check give the same _OK and _Remark values after
\* program_category_check, duration_check or domestic_market_check as on
\* the freshly loaded table
C29_VerdictsIndependentOfEarlierChecks ==
  RanAfterRewriting =>
    /\ exc = OnFreshTable.exc
    /\ exc = "" =>
         \A c \in VerdictColumnsOf[ran[2]] :
           /\ HasCol(df, c) <=> HasCol(OnFreshTable.df, c)
           /\ HasCol(df, c) =>
                \A p \in 1..NRows(df) : df.data[p][c] = OnFreshTable.df.data[p][c]

-----------------------------------------------------------------------------
(* Claims on the files of a run in the upload folder *)

\* request r has saved its Rosco file and has not yet read it
RoscoAwaited(r) == pc[r] \in {"bsr_path", "bsr_save", "detect_period"}

\* C30: while a run is in progress the Rosco file it saved is there, not
\* deleted by the cleanup, and holds its own upload, not overwritten by
\* another request, until the run has read it; no run reads the input of
\* another
C30_RunReadsItsOwnUploads ==
  \A r \in Requests :
    /\ RoscoAwaited(r) =>
         /\ loaded[r].rosco_path \in DOMAIN env.files
         /\ env.files[loaded[r].rosco_path].owner = r
    /\ df[r] \in {0, r}
    /\ caught[r] # "FileNotFoundError"

====
